---- MODULE Spec2Model ----
(***************************************************************************)
(* Model of the event delivery and job-lifecycle engine of the             *)
(* human-pages-ai example bots:                                            *)
(*   - the Event Bus and the webhook receiver (webhook.ts),                *)
(*   - the HTTP request client with backoff and x402 payment (api.ts),     *)
(*   - the job lifecycle driven by polling waits (bot.ts).                 *)
(*                                                                         *)
(* Three specifications share the variables:                               *)
(*   Spec      the Event Bus, waitForEvent and the POST /webhook handler   *)
(*   SpecReq   one call of request()                                       *)
(*   SpecLife  runJobLifecycle with the webhook receiver beside it         *)
(***************************************************************************)
EXTENDS Integers, Sequences, FiniteSets, TLC

(***************************************************************************)
(* Bounds of the model                                                     *)
(***************************************************************************)
\* number of waitForEvent calls in one behaviour
MaxCalls == 3
\* number of webhook deliveries in one behaviour
MaxEvents == 3
\* sleeping passes of the poll loop one wait may make
MaxTicks == 1
\* messages the human posts in one behaviour
MaxMsgs == 1
\* webhook deliveries beside one run of the lifecycle
MaxLifeEvents == 1
\* sleeping passes of a polling wait looked at on its own
MaxPolls == 2
MaxBatch == 2

Jobs == {"j1"}
\* the event kinds the bots wait for (types.ts WebhookEvent)
Kinds == {"job.accepted", "job.completed"}
Statuses == {"PENDING", "ACCEPTED", "REJECTED", "PAID", "COMPLETED"}

VARIABLES
    webhookUrl,        \* config.webhookUrl is set (push mode)
    pendingResolvers,  \* Map<EventKey, resolver>: key -> id of the call whose resolver is stored, 0 = no entry
    bufferedEvents,    \* Map<EventKey, payload>: key -> id of the buffered payload, 0 = no entry
    calls,             \* the waitForEvent calls made so far, in order
    published,         \* the payloads handed to dispatchEvent so far, in order
    unclaimed,         \* history: key -> the payload last dispatched with no resolver stored, since the last waitForEvent on the key
    webhookStatus,     \* HTTP status of the last POST /webhook response, 0 = none yet
    webhookRequest,    \* history: the signature case and the body of the last POST /webhook
    \* one call of request()
    variant,           \* which copy of request() runs: "x402", "marketing" or "errand"
    paymentConfigured, \* isPaymentConfigured()
    httpClient,        \* x402.ts _httpClient is cached
    reqPc,             \* where the call stands: "idle", "fetch", "confirm", "paidFetch", "sleep", "done", "failed"
    attempt,           \* the loop variable of request()
    lastError,         \* the error caught last
    result,            \* the body request() returned
    signCount,         \* payment authorizations signed so far; the n-th payload is n
    log,               \* history: requests, responses, confirmations, signatures, throws and delays of the call
    \* one run of runJobLifecycle
    lifePc,            \* "idle", "start", "waitAccepted", "coordinate", "pay", "waitCompleted", "review", "done", "failed"
    jobStatus,         \* the local jobStatus of runJobLifecycle
    knownIds,          \* the knownIds set shared by both waits
    remoteMsgs,        \* the job's messages on the remote API, oldest first
    ticks,             \* passes of the poll loop made by the current wait
    lifeError,         \* the error runJobLifecycle rejected with
    lifeLog,           \* history: what the lifecycle did, in order
    \* one call of verifySignature()
    sigBody,           \* rawBody, a sequence of bytes
    sigSignature,      \* signature, a sequence of character codes
    sigResult,         \* "none", "true", "false" or "throws"
    \* config.ts
    webhookSecret,     \* the length of config.webhookSecret
    startup            \* "loading", "started", or "rejected": the module threw

busVars == <<webhookUrl, pendingResolvers, bufferedEvents, calls, published, unclaimed, webhookStatus, webhookRequest>>

reqVars == <<variant, paymentConfigured, httpClient, reqPc, attempt, lastError, result, signCount, log>>

lifeVars == <<lifePc, jobStatus, knownIds, remoteMsgs, ticks, lifeError, lifeLog>>

sigVars == <<sigBody, sigSignature, sigResult>>

cfgVars == <<webhookSecret, startup>>

vars == <<busVars, reqVars, lifeVars, sigVars, cfgVars>>

(***************************************************************************)
(* webhook.ts: event bus                                                   *)
(***************************************************************************)
Keys == Jobs \X Kinds

\* type EventKey = `${jobId}:${event}`
EventKey(jobId, event) == <<jobId, event>>

EVENT_TO_STATUS(event) ==
    CASE event = "job.accepted" -> "ACCEPTED"
      [] event = "job.rejected" -> "REJECTED"
      [] event = "job.paid" -> "PAID"
      [] event = "job.completed" -> "COMPLETED"
      [] OTHER -> "none"

KeyOfCall(c) == EventKey(calls[c].jobId, calls[c].event)
KeyOfPayload(p) == EventKey(published[p].jobId, published[p].event)

\* A promise settles once: a later resolve()/reject() on it changes nothing.
Settle(call, state, payload, error) ==
    IF call.state = "pending"
    THEN [call EXCEPT !.state = state, !.payload = payload, !.error = error,
                      !.settles = @ + 1]
    ELSE [call EXCEPT !.settles = @ + 1]

NewCall(jobId, event, state, payload, timer) ==
    [jobId |-> jobId, event |-> event, state |-> state, payload |-> payload,
     error |-> "none", timer |-> timer,
     settles |-> IF state = "resolved" THEN 1 ELSE 0]

\* mutant: the buffered event is handed over but kept in the buffer
bufferDelete_Kept(key) == bufferedEvents

\* bufferedEvents.delete(key) in waitForEvent
bufferDelete(key) == [bufferedEvents EXCEPT ![key] = 0]

\* waitForEvent(jobId, event, timeoutMs)
waitForEvent(jobId, event) ==
    LET key == EventKey(jobId, event)
        buffered == bufferedEvents[key]
        id == Len(calls) + 1
    IN  /\ Len(calls) < MaxCalls
        /\ unclaimed' = [unclaimed EXCEPT ![key] = 0]
        /\ IF ~webhookUrl
           THEN \* no webhook server: pollForStatus(jobId, event, timeoutMs)
                /\ calls' = Append(calls, NewCall(jobId, event, "polling", 0, "none"))
                /\ UNCHANGED <<pendingResolvers, bufferedEvents>>
           ELSE IF buffered # 0
           THEN \* the event arrived before the wait started
                /\ bufferedEvents' = bufferDelete(key)
                /\ calls' = Append(calls, NewCall(jobId, event, "resolved", buffered, "none"))
                /\ UNCHANGED pendingResolvers
           ELSE /\ calls' = Append(calls, NewCall(jobId, event, "pending", 0, "armed"))
                /\ pendingResolvers' = [pendingResolvers EXCEPT ![key] = id]
                /\ UNCHANGED bufferedEvents
        /\ UNCHANGED <<webhookUrl, published, webhookStatus, webhookRequest, reqVars, lifeVars, sigVars, cfgVars>>

\* mutant: the timer callback leaves the resolver in the map
timerDelete_Kept(c) == pendingResolvers

\* pendingResolvers.delete(key) in the timer callback of call c
timerDelete(c) == [pendingResolvers EXCEPT ![KeyOfCall(c)] = 0]

\* the setTimeout callback of call c
waitTimeout(c) ==
    /\ c \in 1..Len(calls)
    /\ calls[c].timer = "armed"
    /\ pendingResolvers' = timerDelete(c)
    /\ calls' = [calls EXCEPT ![c] =
                    [Settle(calls[c], "rejected", 0, "timeout") EXCEPT !.timer = "fired"]]
    /\ UNCHANGED <<webhookUrl, bufferedEvents, published, unclaimed, webhookStatus, webhookRequest, reqVars, lifeVars, sigVars, cfgVars>>

\* mutant: the resolver forgets clearTimeout(timer)
resolverCalls_NoClear(c, payload) ==
    [calls EXCEPT ![c] = Settle(calls[c], "resolved", payload, "none")]

\* the resolver closure stored by call c, applied to a payload:
\* clearTimeout(timer); ...; resolve(payload)
resolverCalls(c, payload) ==
    [calls EXCEPT ![c] =
        [Settle(calls[c], "resolved", payload, "none") EXCEPT !.timer = "cleared"]]

\* mutant: the resolver forgets pendingResolvers.delete(key)
resolverMap_Kept(c) == pendingResolvers

\* the resolver closure stored by call c: pendingResolvers.delete(key)
resolverMap(c) == [pendingResolvers EXCEPT ![KeyOfCall(c)] = 0]

\* mutant: an event already buffered for the key is kept
bufferSet_KeepFirst(key, payload) ==
    IF bufferedEvents[key] # 0 THEN bufferedEvents
    ELSE [bufferedEvents EXCEPT ![key] = payload]

\* bufferedEvents.set(key, payload) in dispatchEvent
bufferSet(key, payload) == [bufferedEvents EXCEPT ![key] = payload]

\* mutant: dispatchEvent does not look for a resolver
hasResolver_Never(key) == FALSE

\* if (resolver) in dispatchEvent
hasResolver(key) == pendingResolvers[key] # 0

\* dispatchEvent(payload), payload being the id it gets in published'
dispatchEvent(jobId, event) ==
    LET key == EventKey(jobId, event)
        payload == Len(published) + 1
        resolver == pendingResolvers[key]
    IN  /\ published' = Append(published, [jobId |-> jobId, event |-> event])
        /\ IF hasResolver(key)
           THEN /\ calls' = resolverCalls(resolver, payload)
                /\ pendingResolvers' = resolverMap(resolver)
                /\ UNCHANGED <<bufferedEvents, unclaimed>>
           ELSE /\ bufferedEvents' = bufferSet(key, payload)
                /\ unclaimed' = [unclaimed EXCEPT ![key] = payload]
                /\ UNCHANGED <<calls, pendingResolvers>>

(***************************************************************************)
(* webhook.ts: POST /webhook                                               *)
(***************************************************************************)
SignatureCases == {"missing", "invalid", "valid"}

\* request bodies: one express.raw() did not read (no body, or a Content-Type
\* other than application/json: req.body is then no Buffer), one that
\* JSON.parse rejects, and one event payload per key
WebhookBodies ==
    {[raw |-> FALSE, json |-> FALSE, jobId |-> "", event |-> ""],
     [raw |-> TRUE, json |-> FALSE, jobId |-> "", event |-> ""]}
    \cup {[raw |-> TRUE, json |-> TRUE, jobId |-> k[1], event |-> k[2]] : k \in Keys}

NoRequest == [signature |-> "none", body |-> [raw |-> FALSE, json |-> FALSE, jobId |-> "", event |-> ""]]

\* mutant: the result of verifySignature is ignored
signatureRejected_Never(signature) == FALSE

\* !verifySignature(rawBody, signature) in the handler
signatureRejected(signature) == signature # "valid"

\* the handler of app.post('/webhook'); a throw inside it is answered 500 by
\* express
webhookPost(signature, body) ==
    /\ webhookUrl
    /\ Len(published) < MaxEvents
    /\ webhookRequest' = [signature |-> signature, body |-> body]
    /\ IF signature = "missing"
       THEN /\ webhookStatus' = 401
            /\ UNCHANGED <<pendingResolvers, bufferedEvents, calls, published, unclaimed>>
       ELSE IF ~body.raw
       THEN \* createHmac(...).update(rawBody) throws a TypeError
            /\ webhookStatus' = 500
            /\ UNCHANGED <<pendingResolvers, bufferedEvents, calls, published, unclaimed>>
       ELSE IF signatureRejected(signature)
       THEN /\ webhookStatus' = 401
            /\ UNCHANGED <<pendingResolvers, bufferedEvents, calls, published, unclaimed>>
       ELSE IF ~body.json
       THEN /\ webhookStatus' = 400
            /\ UNCHANGED <<pendingResolvers, bufferedEvents, calls, published, unclaimed>>
       ELSE /\ dispatchEvent(body.jobId, body.event)
            /\ webhookStatus' = 200
    /\ UNCHANGED <<webhookUrl, reqVars, lifeVars, sigVars, cfgVars>>

\* pollForStatus: one pass of the while loop of call c; fetched is the status
\* getJob returned ("error" when getJob threw), expired tells whether
\* Date.now() < deadline failed at the loop head
pollForStatus(c, fetched, expired) ==
    /\ c \in 1..Len(calls)
    /\ calls[c].state = "polling"
    /\ calls' = [calls EXCEPT ![c] =
         IF expired
         THEN [@ EXCEPT !.state = "rejected", !.error = "timeout", !.settles = 1]
         ELSE IF fetched = "error"
         THEN [@ EXCEPT !.state = "rejected", !.error = "api", !.settles = 1]
         ELSE IF fetched = EVENT_TO_STATUS(@.event)
         THEN [@ EXCEPT !.state = "resolved", !.payload = -1, !.settles = 1]
         ELSE IF @.event = "job.accepted" /\ fetched = "REJECTED"
         THEN [@ EXCEPT !.state = "rejected", !.error = "rejected", !.settles = 1]
         ELSE @]
    /\ UNCHANGED <<webhookUrl, pendingResolvers, bufferedEvents, published, unclaimed, webhookStatus, webhookRequest, reqVars, lifeVars, sigVars, cfgVars>>

(***************************************************************************)
(* webhook.ts: verifySignature                                             *)
(***************************************************************************)
\* A string is a sequence of character codes, a Buffer a sequence of bytes.
\* The digest has DigestLen bytes (32 for SHA-256), a body BodyBits bits.
DigestLen == 1
BodyBits == 3
SigBodies == 0..(2 ^ BodyBits - 1)

\* createHmac('sha256', secret).update(rawBody).digest(): some function of the
\* body under which the bodies at hand do not collide
Hmac(rawBody) == [k \in 1..DigestLen |-> (rawBody * 37 + 171 + 91 * (k - 1)) % 256]

HexDigit(n) == IF n < 10 THEN 48 + n ELSE 87 + n

\* Buffer.toString('hex'): two lower-case digits per byte
HexEncode(bytes) ==
    [i \in 1..(2 * Len(bytes)) |->
        IF i % 2 = 1 THEN HexDigit(bytes[(i + 1) \div 2] \div 16)
        ELSE HexDigit(bytes[i \div 2] % 16)]

\* the value of a hex digit of either case, -1 for any other character
Unhex(c) ==
    IF c >= 48 /\ c <= 57 THEN c - 48
    ELSE IF c >= 97 /\ c <= 102 THEN c - 87
    ELSE IF c >= 65 /\ c <= 70 THEN c - 55
    ELSE -1

RECURSIVE BufferFromHex(_)
\* Buffer.from(str, 'hex'): decoding stops at the first pair that is not two
\* hex digits, and a trailing single character is dropped
BufferFromHex(str) ==
    IF Len(str) < 2 \/ Unhex(str[1]) < 0 \/ Unhex(str[2]) < 0 THEN <<>>
    ELSE <<16 * Unhex(str[1]) + Unhex(str[2])>> \o BufferFromHex(SubSeq(str, 3, Len(str)))

\* timingSafeEqual(a, b) throws a RangeError when the lengths differ
timingSafeEqual(a, b) == IF Len(a) # Len(b) THEN "throws" ELSE IF a = b THEN "true" ELSE "false"

\* mutant: the signature is compared with the digest of the empty body
expectedSignature_Fixed(rawBody) == HexEncode(Hmac(0))

\* const expected = createHmac(...).update(rawBody).digest('hex')
expectedSignature(rawBody) == HexEncode(Hmac(rawBody))

verifySignature(rawBody, signature) ==
    LET r == timingSafeEqual(BufferFromHex(signature), BufferFromHex(expectedSignature(rawBody)))
    IN  IF r = "throws" THEN "false" ELSE r

\* a call of verifySignature
sigVerify(rawBody, signature) ==
    /\ sigBody' = rawBody
    /\ sigSignature' = signature
    /\ sigResult' = verifySignature(rawBody, signature)
    /\ UNCHANGED <<busVars, reqVars, lifeVars, cfgVars>>

(***************************************************************************)
(* api.ts: request()                                                       *)
(***************************************************************************)
RETRY_DELAYS == <<1000, 4000, 16000>>

\* "x402": marketing-bot api.ts with the 402 branch; "marketing": the copy
\* without it; "errand": errand-bot api.ts
Variants == {"x402", "marketing", "errand"}

\* An error message is `API ${status}...` or some other text.
ApiError(status, text) == [api |-> TRUE, status |-> status, text |-> text]
OtherError(text) == [api |-> FALSE, status |-> 0, text |-> text]
NoError == OtherError("")

RECURSIVE FirstDigit(_)
FirstDigit(n) == IF n < 10 THEN n ELSE FirstDigit(n \div 10)

\* lastError.message.startsWith('API 4')
StartsWithAPI4(err) == err.api /\ FirstDigit(err.status) = 4

\* What fetch() can bring: status 0 stands for a rejected fetch (network
\* error).  A 2xx body is a JSON value ("b1", "b2") or text res.json()
\* rejects; an error body is a JSON object with the AGENT_PENDING code, one
\* with payment options (accepts), or one with neither ("none", which is also
\* what a body that is not JSON is replaced by).
Responses ==
    {[status |-> 0, body |-> "none"], [status |-> 503, body |-> "none"]}
    \cup {[status |-> 200, body |-> b] : b \in {"b1", "b2", "notjson"}}
    \cup {[status |-> st, body |-> b] : st \in {402, 403, 404}, b \in {"none", "pending", "accepts"}}

IsClientError(status) == status >= 400 /\ status < 500
IsOk(status) == status >= 200 /\ status < 300

E(op, n, text) == [op |-> op, n |-> n, s |-> text]

\* the catch block of the loop: err was thrown while handling a response of
\* status cause (0: no response is to blame); newLog is the log up to the throw
reqCatch(err, cause, newLog) ==
    /\ lastError' = err
    /\ log' = Append(newLog, E("throw", cause, err.text))
    /\ IF StartsWithAPI4(err)
       THEN reqPc' = "failed" /\ attempt' = attempt
       ELSE IF attempt < Len(RETRY_DELAYS)
       THEN reqPc' = "sleep" /\ attempt' = attempt
       ELSE \* no delay; the loop ends and lastError is thrown
            reqPc' = "failed" /\ attempt' = attempt + 1
    /\ UNCHANGED <<result, signCount, httpClient>>

\* the error thrown for a 4xx response outside the 402 branch
ClientError(status, body) ==
    IF variant # "errand" /\ status = 403 /\ body = "pending"
    THEN OtherError("Agent is not yet activated")
    ELSE ApiError(status, body)

reqReturn(body, newLog) ==
    /\ reqPc' = "done"
    /\ result' = body
    /\ log' = newLog
    /\ UNCHANGED <<attempt, lastError, signCount, httpClient>>

\* one pass of the loop body from fetch() to the next suspension
reqFetch(resp) ==
    LET newLog == log \o <<E("request", 0, ""), E("response", resp.status, resp.body)>>
    IN  /\ reqPc = "fetch"
        /\ IF resp.status = 0
           THEN reqCatch(OtherError("fetch failed"), 0, newLog)
           ELSE IF IsClientError(resp.status)
           THEN IF variant = "x402" /\ resp.status = 402
                THEN IF resp.body # "accepts"
                     THEN reqCatch(ApiError(402, "no x402 payment options"), 402, newLog)
                     ELSE IF ~paymentConfigured
                     THEN reqCatch(ApiError(402, "No wallet configured"), 402, newLog)
                     ELSE /\ reqPc' = "confirm"
                          /\ log' = newLog
                          /\ UNCHANGED <<attempt, lastError, result, signCount, httpClient>>
                ELSE reqCatch(ClientError(resp.status, resp.body), resp.status, newLog)
           ELSE IF ~IsOk(resp.status)
           THEN reqCatch(ApiError(resp.status, "statusText"), resp.status, newLog)
           ELSE IF resp.body = "notjson"
           THEN reqCatch(OtherError("SyntaxError"), resp.status, newLog)
           ELSE reqReturn(resp.body, newLog)
        /\ UNCHANGED <<variant, paymentConfigured, busVars, lifeVars, sigVars, cfgVars>>

\* mutant: the refusal message loses its `API 402` prefix
DeclinedError_NoPrefix == OtherError("Payment declined by operator")

\* the error thrown when the operator answers no
DeclinedError == ApiError(402, "Payment declined by operator")

\* mutant: the request is re-issued with the original headers
paymentHeader_Missing(payload) == 0

\* the value of the x-payment header of the re-issued request
paymentHeader(payload) == payload

\* from the answer of confirm() to the re-issued fetch: getX402Client() and
\* createPaymentPayload() each succeed or throw
reqConfirm(ok, client, signing) ==
    LET newLog == Append(log, E("confirm", IF ok THEN 1 ELSE 0, ""))
    IN  /\ reqPc = "confirm"
        /\ httpClient => client = "ok"
        /\ IF ~ok
           THEN reqCatch(DeclinedError, 402, newLog)
           ELSE IF client = "throws"
           THEN reqCatch(OtherError("wallet"), 0, newLog)
           ELSE IF signing = "throws"
           THEN /\ lastError' = ApiError(402, "x402 payment signing failed")
                /\ log' = Append(newLog, E("throw", 402, "x402 payment signing failed"))
                /\ reqPc' = "failed"
                /\ httpClient' = TRUE
                /\ UNCHANGED <<attempt, result, signCount>>
           ELSE /\ signCount' = signCount + 1
                /\ log' = Append(newLog, E("sign", signCount + 1, ""))
                /\ reqPc' = "paidFetch"
                /\ httpClient' = TRUE
                /\ UNCHANGED <<attempt, lastError, result>>
        /\ UNCHANGED <<variant, paymentConfigured, busVars, lifeVars, sigVars, cfgVars>>

\* the re-issued fetch with the x-payment header, up to return or catch
reqPaidFetch(resp) ==
    LET newLog == log \o <<E("request", paymentHeader(signCount), ""),
                           E("response", resp.status, resp.body)>>
    IN  /\ reqPc = "paidFetch"
        /\ IF resp.status = 0
           THEN reqCatch(OtherError("fetch failed"), 0, newLog)
           ELSE IF ~IsOk(resp.status)
           THEN reqCatch(ApiError(resp.status, "after x402 payment"), resp.status, newLog)
           ELSE IF resp.body = "notjson"
           THEN reqCatch(OtherError("SyntaxError"), resp.status, newLog)
           ELSE reqReturn(resp.body, newLog)
        /\ UNCHANGED <<variant, paymentConfigured, busVars, lifeVars, sigVars, cfgVars>>

\* the backoff delay, then the next pass of the loop
reqSleep ==
    /\ reqPc = "sleep"
    /\ log' = Append(log, E("delay", RETRY_DELAYS[attempt + 1], ""))
    /\ attempt' = attempt + 1
    /\ reqPc' = "fetch"
    /\ UNCHANGED <<variant, paymentConfigured, httpClient, lastError, result, signCount, busVars, lifeVars, sigVars, cfgVars>>

(***************************************************************************)
(* bot.ts: runJobLifecycle, and webhook.ts: waitForEventWithMessages       *)
(***************************************************************************)
\* mutant: a status the cascade does not name is taken for COMPLETED
Phase_UnknownReviews(status) ==
    CASE status \in {"PENDING", "OFFERED"} -> "waitAccepted"
      [] status = "ACCEPTED" -> "pay"
      [] status = "PAID" -> "waitCompleted"
      [] OTHER -> "review"

\* mutant: the cascade is entered at its first phase whatever the status
Phase_FromStart(status) == "waitAccepted"

\* mutant: a paid job is reviewed without the wait for its completion
Phase_NoCompletionWait(status) ==
    CASE status \in {"PENDING", "OFFERED"} -> "waitAccepted"
      [] status = "ACCEPTED" -> "pay"
      [] status \in {"PAID", "COMPLETED"} -> "review"
      [] OTHER -> "done"

\* the if-cascade of runJobLifecycle: the first phase whose condition holds
Phase(status) ==
    CASE status \in {"PENDING", "OFFERED"} -> "waitAccepted"
      [] status = "ACCEPTED" -> "pay"
      [] status = "PAID" -> "waitCompleted"
      [] status = "COMPLETED" -> "review"
      [] OTHER -> "done"

\* the statuses runJobLifecycle may be entered with
EntryStatuses == {"PENDING", "OFFERED", "ACCEPTED", "PAID", "COMPLETED", "CANCELLED"}

\* what each new message's callback does: the reply is sent, sendMessage
\* fails (caught in the handler), or the callback itself throws
CallbackOutcomes == {"replied", "sendFailed", "threw"}

HumanIds == 1..MaxMsgs
\* the id of the next message the bot sends
SentId(remote) == 100 + Cardinality({i \in 1..Len(remote) : remote[i].senderType = "agent"}) + 1

\* sendMessage succeeded: the message is on the remote API and its id is known
Sent(st, what) ==
    [st EXCEPT !.known = @ \cup {SentId(st.remote)},
               !.remote = Append(@, [id |-> SentId(st.remote), senderType |-> "agent"]),
               !.log = Append(@, E("sendMessage", SentId(st.remote), what))]

\* mutant: the id of a message handed to the callback is not remembered
knownAdd_Forgot(known, id) == known

\* knownMessageIds.add(msg.id)
knownAdd(known, id) == known \cup {id}

\* mutant: the reply is sent before the callback is entered
replied_ReplyFirst(entered) ==
    LET before == [entered EXCEPT !.log = SubSeq(@, 1, Len(@) - 1)]
    IN  [Sent(before, "reply") EXCEPT !.log = Append(@, entered.log[Len(entered.log)])]

\* the handler: await sendMessage(jobId, reply); knownIds.add(sent.id)
replied(entered) == Sent(entered, "reply")

RECURSIVE forMsgs(_, _, _, _)
\* mutant: the loop goes on with the next message after a callback threw
afterThrow_Continues(msgs, i, outcome, entered) == forMsgs(msgs, i + 1, outcome, entered)

\* a throw of await onMessage(msg) leaves the for loop for the catch block
afterThrow(msgs, i, outcome, entered) == entered

\* the loop `for (const msg of msgs)` from position i on, inside its try block
forMsgs(msgs, i, outcome, st) ==
    IF i > Len(msgs) THEN st
    ELSE IF msgs[i].senderType = "human" /\ msgs[i].id \notin st.known
    THEN LET entered == [st EXCEPT !.known = knownAdd(@, msgs[i].id),
                                   !.log = Append(@, E("onMessage", msgs[i].id, outcome[msgs[i].id]))]
         IN  CASE outcome[msgs[i].id] = "threw" -> afterThrow(msgs, i, outcome, entered)
               [] outcome[msgs[i].id] = "replied" -> forMsgs(msgs, i + 1, outcome, replied(entered))
               [] OTHER -> forMsgs(msgs, i + 1, outcome, entered)
    ELSE forMsgs(msgs, i + 1, outcome, st)

WaitEvent == IF lifePc = "waitAccepted" THEN "job.accepted" ELSE "job.completed"

\* the job the lifecycle runs on
lifeJobId == CHOOSE j \in Jobs : TRUE

\* what getJob can return: a status and the job's other fields (title,
\* description, priceUsdc, humanId, human.name) as one value; status "error"
\* stands for a getJob that threw
JobFields == {"f1", "f2"}
FetchedJob(status, fields) == [status |-> status, fields |-> fields]

\* mutant: the payload is built without the job's fields
pollPayload_NoData(event, job) ==
    [event |-> event, jobId |-> lifeJobId, status |-> job.status, data |-> "none"]

\* the WebhookPayload a polling wait returns
pollPayload(event, job) ==
    [event |-> event, jobId |-> lifeJobId, status |-> job.status, data |-> job.fields]

\* mutant: the rejection is not looked at
isRejection_Never(event, status) == FALSE

\* mutant: a rejection ends the wait whatever the awaited event
isRejection_AnyWait(event, status) == status = "REJECTED"

\* event === 'job.accepted' && job.status === 'REJECTED'
isRejection(event, status) == event = "job.accepted" /\ status = "REJECTED"

\* mutant: marketing-bot has the try block of errand-bot
caught_Both(pc) == pc \in {"waitCompleted", "review"}

\* Steps 9 and 10 of errand-bot's runBot are inside one try block whose catch
\* prints the error; runJobLifecycle has no try block around a wait or the
\* review.  variant tells whose code runs.
caught(pc) == variant = "errand" /\ pc \in {"waitCompleted", "review"}

\* where an error thrown at pc takes the bot: into the catch and on to the
\* end of runBot, or out of the function
thrownTo(pc) == IF caught(pc) THEN "done" ELSE "failed"

\* what the function rejects with when err is thrown at pc
rejectsWith(pc, err, before) == IF caught(pc) THEN before ELSE err

\* mutant: the loop goes on after the deadline
timeoutPc_Stays(pc) == pc

\* the throw after the while loop
timeoutPc(pc) == thrownTo(pc)

\* mutant: an error of getJob is swallowed like one of getMessages
getJobErrorPc_Swallowed(pc) == pc

\* getJob is awaited outside any try block of the wait
getJobErrorPc(pc) == thrownTo(pc)

\* mutant: no catch around the message fetch
messagesErrorPc_Rethrown(pc) == "failed"

\* catch {} around the message fetch and the callbacks
messagesErrorPc(pc) == pc

\* mutant: the messages are fetched before the status is compared
returnSteps_MessagesFirst(job) ==
    <<[op |-> "getJob", n |-> 0, s |-> job.status, job |-> job],
      E("getMessages", 0, "ok"),
      [op |-> "return", n |-> 0, s |-> WaitEvent, payload |-> pollPayload(WaitEvent, job)]>>

\* the pass that fetches the target status: getJob, the comparison, the return
returnSteps(job) ==
    <<[op |-> "getJob", n |-> 0, s |-> job.status, job |-> job],
      [op |-> "return", n |-> 0, s |-> WaitEvent, payload |-> pollPayload(WaitEvent, job)]>>

\* waitForEventWithMessages: one pass of the while loop, from the deadline
\* test to the end of the sleep.  job is what getJob returned, msgsOk whether
\* getMessages succeeded.
waitPass(job, expired, msgsOk, outcome) ==
    /\ lifePc \in {"waitAccepted", "waitCompleted"}
    /\ IF expired
       THEN /\ lifePc' = timeoutPc(lifePc)
            /\ lifeError' = rejectsWith(lifePc, "timeout", lifeError)
            /\ lifeLog' = Append(lifeLog, [op |-> "timeout", n |-> 0, s |-> WaitEvent, jobId |-> lifeJobId])
            /\ UNCHANGED <<jobStatus, knownIds, remoteMsgs, ticks>>
       ELSE IF job.status = "error"
       THEN /\ lifePc' = getJobErrorPc(lifePc)
            /\ lifeError' = rejectsWith(lifePc, "api", lifeError)
            /\ lifeLog' = Append(lifeLog, [op |-> "getJob", n |-> 0, s |-> job.status, job |-> job])
            /\ UNCHANGED <<jobStatus, knownIds, remoteMsgs, ticks>>
       ELSE IF job.status = EVENT_TO_STATUS(WaitEvent)
       THEN /\ lifePc' = IF lifePc = "waitAccepted" THEN "coordinate" ELSE "review"
            /\ jobStatus' = IF lifePc = "waitAccepted" THEN jobStatus ELSE "COMPLETED"
            /\ lifeLog' = lifeLog \o returnSteps(job)
            /\ UNCHANGED <<knownIds, remoteMsgs, ticks, lifeError>>
       ELSE IF isRejection(WaitEvent, job.status)
       THEN /\ lifePc' = "failed"
            /\ lifeError' = "rejected"
            /\ lifeLog' = Append(lifeLog, [op |-> "getJob", n |-> 0, s |-> job.status, job |-> job])
            /\ UNCHANGED <<jobStatus, knownIds, remoteMsgs, ticks>>
       ELSE LET st0 == [known |-> knownIds, remote |-> remoteMsgs,
                        log |-> lifeLog \o <<[op |-> "getJob", n |-> 0, s |-> job.status, job |-> job],
                                             E("getMessages", 0, IF msgsOk THEN "ok" ELSE "failed")>>]
                st1 == IF msgsOk THEN forMsgs(remoteMsgs, 1, outcome, st0) ELSE st0
                threw == ~msgsOk \/ (st1.log # <<>> /\ st1.log[Len(st1.log)].s = "threw")
            IN  /\ knownIds' = st1.known
                /\ remoteMsgs' = st1.remote
                /\ lifePc' = IF threw THEN messagesErrorPc(lifePc) ELSE lifePc
                /\ lifeError' = IF threw /\ messagesErrorPc(lifePc) = "failed" THEN "api" ELSE lifeError
                /\ lifeLog' = Append(st1.log, E("sleep", 0, ""))
                /\ ticks' = ticks + 1
                /\ UNCHANGED jobStatus
    /\ UNCHANGED <<busVars, reqVars, sigVars, cfgVars>>

\* The deadline is a finite time after the start of the wait and every pass
\* that does not end the wait sleeps POLL_INTERVAL_MS: after limit sleeps the
\* deadline has passed.
deadlinePassed(limit, job, expired) ==
    ticks >= limit =>
        \/ expired
        \/ job.status \in {"error", EVENT_TO_STATUS(WaitEvent)}
        \/ isRejection(WaitEvent, job.status)

\* a pass of a wait of the lifecycle
lifePoll(fetched, expired, msgsOk, outcome) ==
    /\ deadlinePassed(MaxTicks, FetchedJob(fetched, "f1"), expired)
    /\ waitPass(FetchedJob(fetched, "f1"), expired, msgsOk, outcome)

\* a pass of a wait looked at on its own
waitPoll(job, expired, msgsOk, outcome) ==
    /\ deadlinePassed(MaxPolls, job, expired)
    /\ waitPass(job, expired, msgsOk, outcome)

\* after the acceptance wait: the contact lookup (the polled payload carries
\* no contact), the coordination message, jobStatus = 'ACCEPTED'
lifeCoordinate(profileOk, coordOk) ==
    LET st0 == [known |-> knownIds, remote |-> remoteMsgs,
                log |-> Append(lifeLog, E("getHumanProfile", 0, IF profileOk THEN "ok" ELSE "failed"))]
        st1 == IF coordOk THEN Sent(st0, "coordination")
               ELSE [st0 EXCEPT !.log = Append(@, E("sendMessage", 0, "failed"))]
    IN  /\ lifePc = "coordinate"
        /\ knownIds' = st1.known
        /\ remoteMsgs' = st1.remote
        /\ lifeLog' = st1.log
        /\ jobStatus' = "ACCEPTED"
        /\ lifePc' = Phase("ACCEPTED")
        /\ UNCHANGED <<ticks, lifeError, busVars, reqVars, sigVars, cfgVars>>

\* how far the try block of the pay phase gets
PayOutcomes == {"walletThrows", "balanceThrows", "insufficient", "noRecipient",
                "declined", "transferThrows", "markPaidThrows", "paid"}

\* mutant: the transfer is made although the operator declined
\* mutant: when the record of the payment fails the transfer is made again
afterMarkPaidThrows_Retries ==
    <<E("sendUsdc", 1, "txHash"), E("markJobPaid", 1, "ok")>>

\* a throw of markJobPaid is caught by the catch of the pay phase, which
\* prints 'Payment failed' and does nothing else
afterMarkPaidThrows == <<E("paymentFailed", 0, "")>>

PaySteps_DeclinedSends(outcome) ==
    CASE outcome = "walletThrows" -> <<E("loadWalletAccount", 0, "throws"), E("paymentFailed", 0, "")>>
      [] outcome = "declined" -> <<E("loadWalletAccount", 0, "ok"), E("getUsdcBalance", 0, "enough"),
                                   E("resolveRecipientWallet", 0, "address"), E("confirm", 0, ""),
                                   E("sendUsdc", 1, "txHash"), E("markJobPaid", 1, "ok")>>
      [] OTHER -> <<E("loadWalletAccount", 0, "ok"), E("getUsdcBalance", 0, "enough"),
                    E("resolveRecipientWallet", 0, "address"), E("confirm", 1, ""),
                    E("sendUsdc", 1, "txHash"), E("markJobPaid", 1, "ok")>>

PaySteps(outcome) ==
    CASE outcome = "walletThrows" -> <<E("loadWalletAccount", 0, "throws"), E("paymentFailed", 0, "")>>
      [] outcome = "balanceThrows" -> <<E("loadWalletAccount", 0, "ok"), E("getUsdcBalance", 0, "throws"),
                                        E("paymentFailed", 0, "")>>
      [] outcome = "insufficient" -> <<E("loadWalletAccount", 0, "ok"), E("getUsdcBalance", 0, "short"),
                                       E("paymentFailed", 0, "")>>
      [] outcome = "noRecipient" -> <<E("loadWalletAccount", 0, "ok"), E("getUsdcBalance", 0, "enough"),
                                      E("resolveRecipientWallet", 0, "none")>>
      [] outcome = "declined" -> <<E("loadWalletAccount", 0, "ok"), E("getUsdcBalance", 0, "enough"),
                                   E("resolveRecipientWallet", 0, "address"), E("confirm", 0, "")>>
      [] outcome = "transferThrows" -> <<E("loadWalletAccount", 0, "ok"), E("getUsdcBalance", 0, "enough"),
                                         E("resolveRecipientWallet", 0, "address"), E("confirm", 1, ""),
                                         E("sendUsdc", 0, "throws"), E("paymentFailed", 0, "")>>
      [] outcome = "markPaidThrows" -> <<E("loadWalletAccount", 0, "ok"), E("getUsdcBalance", 0, "enough"),
                                         E("resolveRecipientWallet", 0, "address"), E("confirm", 1, ""),
                                         E("sendUsdc", 1, "txHash"), E("markJobPaid", 1, "throws")>>
                                         \o afterMarkPaidThrows
      [] OTHER -> <<E("loadWalletAccount", 0, "ok"), E("getUsdcBalance", 0, "enough"),
                    E("resolveRecipientWallet", 0, "address"), E("confirm", 1, ""),
                    E("sendUsdc", 1, "txHash"), E("markJobPaid", 1, "ok")>>

\* how far the try block of step 8 of errand-bot's runBot gets: no operator
\* is asked, and a human without a wallet on the network is an error
ErrandPayOutcomes == (PayOutcomes \ {"declined"}) \cup {"profileThrows"}

runBotPaySteps(outcome) ==
    CASE outcome \in {"walletThrows", "balanceThrows", "insufficient"} -> PaySteps(outcome)
      [] outcome = "profileThrows" -> <<E("loadWalletAccount", 0, "ok"), E("getUsdcBalance", 0, "enough"),
                                        E("getHumanProfile", 0, "throws"), E("paymentFailed", 0, "")>>
      [] outcome = "noRecipient" -> <<E("loadWalletAccount", 0, "ok"), E("getUsdcBalance", 0, "enough"),
                                      E("getHumanProfile", 0, "noWallet"), E("paymentFailed", 0, "")>>
      [] outcome = "transferThrows" -> <<E("loadWalletAccount", 0, "ok"), E("getUsdcBalance", 0, "enough"),
                                         E("getHumanProfile", 0, "wallet"),
                                         E("sendUsdc", 0, "throws"), E("paymentFailed", 0, "")>>
      [] outcome = "markPaidThrows" -> <<E("loadWalletAccount", 0, "ok"), E("getUsdcBalance", 0, "enough"),
                                         E("getHumanProfile", 0, "wallet"),
                                         E("sendUsdc", 1, "txHash"), E("markJobPaid", 1, "throws"),
                                         E("paymentFailed", 0, "")>>
      [] OTHER -> <<E("loadWalletAccount", 0, "ok"), E("getUsdcBalance", 0, "enough"),
                    E("getHumanProfile", 0, "wallet"),
                    E("sendUsdc", 1, "txHash"), E("markJobPaid", 1, "ok")>>

\* the else branch of step 8 of errand-bot's runBot: markJobPaid is called
\* with the placeholder hash (n = 0), inside a try block
demoSteps(outcome) ==
    IF outcome = "markPaidThrows"
    THEN <<E("noWallet", 0, "demo"), E("markJobPaid", 0, "throws"), E("paymentFailed", 0, "")>>
    ELSE <<E("noWallet", 0, "demo"), E("markJobPaid", 0, "ok")>>

\* mutant: without a wallet the payment is made all the same
noWalletSteps_Pays == PaySteps("paid")

\* the else branch of the pay phase of runJobLifecycle: four lines are printed
noWalletSteps == <<E("noWallet", 0, "")>>

\* the calls of the pay phase
payLog(outcome) ==
    CASE variant = "errand" /\ paymentConfigured -> runBotPaySteps(outcome)
      [] variant = "errand" -> demoSteps(outcome)
      [] paymentConfigured -> PaySteps(outcome)
      [] OTHER -> noWalletSteps

\* mutant: the catch of the pay phase throws the error again
afterPay_Rethrown(steps) ==
    IF steps[Len(steps)].op = "paymentFailed" THEN "failed" ELSE Phase("PAID")

\* jobStatus = 'PAID' follows the if/else whatever its try block did
afterPay(steps) == Phase("PAID")

\* the pay phase
lifePay(outcome) ==
    /\ lifePc = "pay"
    /\ lifeLog' = lifeLog \o payLog(outcome)
    /\ jobStatus' = "PAID"
    /\ lifePc' = afterPay(payLog(outcome))
    /\ ticks' = 0
    /\ UNCHANGED <<knownIds, remoteMsgs, lifeError, busVars, reqVars, sigVars, cfgVars>>

\* the review phase: reviewJob succeeds or throws
lifeReview(ok) ==
    /\ lifePc = "review"
    /\ lifeLog' = Append(lifeLog, E("reviewJob", 0, IF ok THEN "ok" ELSE "throws"))
    /\ lifePc' = IF ok THEN "done" ELSE thrownTo(lifePc)
    /\ lifeError' = IF ok THEN lifeError ELSE rejectsWith(lifePc, "api", lifeError)
    /\ UNCHANGED <<jobStatus, knownIds, remoteMsgs, ticks, busVars, reqVars, sigVars, cfgVars>>

\* runJobLifecycle is entered with jobStatus = status
lifeStart(status) ==
    /\ lifePc = "start"
    /\ jobStatus' = status
    /\ lifePc' = Phase(status)
    /\ UNCHANGED <<knownIds, remoteMsgs, ticks, lifeError, lifeLog, busVars, reqVars, sigVars, cfgVars>>

\* mutant: only a rejected job ends the resume
isTerminal_RejectedOnly(status) == status = "REJECTED"

\* the two early returns of resumeBot
isTerminal(status) == status \in {"REJECTED", "REVIEWED"}

\* the statuses a resumed job can be found in
ResumeStatuses == EntryStatuses \cup {"REJECTED", "REVIEWED"}

\* resumeBot: from the job fetch to the call of runJobLifecycle; fetched is
\* the status getJob returned ("error": it threw), msgsOk whether getMessages
\* succeeded
resumeBot(fetched, msgsOk) ==
    /\ lifePc = "resume"
    /\ IF fetched = "error"
       THEN /\ lifePc' = "failed"
            /\ lifeError' = "api"
            /\ lifeLog' = Append(lifeLog, E("getJob", 0, fetched))
            /\ UNCHANGED <<jobStatus, knownIds>>
       ELSE IF isTerminal(fetched)
       THEN /\ lifePc' = "done"
            /\ lifeLog' = Append(lifeLog, E("getJob", 0, fetched))
            /\ UNCHANGED <<jobStatus, knownIds, lifeError>>
       ELSE /\ knownIds' = IF msgsOk THEN {remoteMsgs[i].id : i \in 1..Len(remoteMsgs)} ELSE {}
            /\ lifeLog' = lifeLog \o <<E("getJob", 0, fetched),
                                        E("getMessages", 0, IF msgsOk THEN "ok" ELSE "failed")>>
            /\ jobStatus' = fetched
            /\ lifePc' = Phase(fetched)
            /\ UNCHANGED lifeError
    /\ UNCHANGED <<remoteMsgs, ticks, busVars, reqVars, sigVars, cfgVars>>

\* the human posts a message on the job
humanPosts ==
    LET n == Cardinality({i \in 1..Len(remoteMsgs) : remoteMsgs[i].senderType = "human"})
    IN  /\ lifePc \in {"waitAccepted", "waitCompleted"}
        /\ n < MaxMsgs
        /\ remoteMsgs' = Append(remoteMsgs, [id |-> n + 1, senderType |-> "human"])
        /\ UNCHANGED <<lifePc, jobStatus, knownIds, ticks, lifeError, lifeLog, busVars, reqVars, sigVars, cfgVars>>

(***************************************************************************)
(* config.ts: the validation of the webhook secret                         *)
(***************************************************************************)
MinSecretLen == 16
MaxSecretLen == 256

\* the lengths WEBHOOK_SECRET is tried with; 0: the variable is not set
SecretLengths == {0, MinSecretLen - 1, MinSecretLen, MaxSecretLen, MaxSecretLen + 1}

\* the condition of the throw: an empty string is falsy
secretRejected(len) == len # 0 /\ (len < MinSecretLen \/ len > MaxSecretLen)

\* the module is loaded: it throws or the bot starts
loadConfig ==
    /\ startup = "loading"
    /\ startup' = IF secretRejected(webhookSecret) THEN "rejected" ELSE "started"
    /\ UNCHANGED <<webhookSecret, busVars, reqVars, lifeVars, sigVars>>

\* a configuration that was loaded, with a secret of the shortest length
ConfigLoaded == webhookSecret = MinSecretLen /\ startup = "started"

(***************************************************************************)
(* bot.ts: runBot, steps 1 to 5 (both bots)                                *)
(***************************************************************************)
\* step 1: config.agentApiKey is set, or registerAgent is called
runRegister(hasKey, ok) ==
    /\ lifePc = "register"
    /\ lifeLog' = IF hasKey THEN lifeLog
                  ELSE Append(lifeLog, E("registerAgent", 0, IF ok THEN "ok" ELSE "throws"))
    /\ lifePc' = IF hasKey \/ ok THEN "activation" ELSE "failed"
    /\ lifeError' = IF hasKey \/ ok THEN lifeError ELSE "api"
    /\ UNCHANGED <<jobStatus, knownIds, remoteMsgs, ticks, busVars, reqVars, sigVars, cfgVars>>

\* ActivationStatusResponse.status; "error": getActivationStatus threw
ActivationStatuses == {"PENDING", "ACTIVE", "SUSPENDED", "BANNED"}

\* mutant: the function goes on after the remediation text
notActivePc_Continues(pc) == "fetchHuman"

\* the return that ends the if (activation.status !== 'ACTIVE') block
notActivePc(pc) == "done"

\* step 2: the status is fetched; when it is not ACTIVE an activation code is
\* requested (in its own try block) and runBot returns; an error of the status
\* fetch is caught and the function continues
runActivation(status, codeOk) ==
    /\ lifePc = "activation"
    /\ IF status \in {"ACTIVE", "error"}
       THEN /\ lifeLog' = Append(lifeLog, E("getActivationStatus", 0, status))
            /\ lifePc' = "fetchHuman"
       ELSE /\ lifeLog' = lifeLog \o <<E("getActivationStatus", 0, status),
                                        E("requestActivationCode", 0, IF codeOk THEN "ok" ELSE "throws")>>
            /\ lifePc' = notActivePc(lifePc)
    /\ UNCHANGED <<jobStatus, knownIds, remoteMsgs, ticks, lifeError, busVars, reqVars, sigVars, cfgVars>>

\* step 3: getHuman; marketing-bot then asks the operator about the offer
runFetchHuman(ok) ==
    /\ lifePc = "fetchHuman"
    /\ lifeLog' = Append(lifeLog, E("getHuman", 0, IF ok THEN "ok" ELSE "throws"))
    /\ lifePc' = IF ~ok THEN "failed" ELSE IF variant = "errand" THEN "createJob" ELSE "offer"
    /\ lifeError' = IF ok THEN lifeError ELSE "api"
    /\ UNCHANGED <<jobStatus, knownIds, remoteMsgs, ticks, busVars, reqVars, sigVars, cfgVars>>

\* marketing-bot: 'Send this offer?', and after a no the two questions and
\* the second 'Send this offer?'
runConfirm(first, second) ==
    /\ lifePc = "offer"
    /\ lifeLog' = IF first THEN Append(lifeLog, E("confirm", 1, "offer"))
                  ELSE lifeLog \o <<E("confirm", 0, "offer"),
                                    E("confirm", IF second THEN 1 ELSE 0, "offer")>>
    /\ lifePc' = IF first \/ second THEN "createJob" ELSE "done"
    /\ UNCHANGED <<jobStatus, knownIds, remoteMsgs, ticks, lifeError, busVars, reqVars, sigVars, cfgVars>>

\* step 4: createJob
runCreateJob(ok) ==
    /\ lifePc = "createJob"
    /\ lifeLog' = Append(lifeLog, E("createJob", 0, IF ok THEN "ok" ELSE "throws"))
    /\ lifePc' = IF ok THEN "intro" ELSE "failed"
    /\ lifeError' = IF ok THEN lifeError ELSE "api"
    /\ UNCHANGED <<jobStatus, knownIds, remoteMsgs, ticks, busVars, reqVars, sigVars, cfgVars>>

\* step 5: the intro message, in a try block; then the acceptance wait is
\* entered (runJobLifecycle is called with 'PENDING')
runIntro(ok) ==
    LET st0 == [known |-> knownIds, remote |-> remoteMsgs, log |-> lifeLog]
        st1 == IF ok THEN Sent(st0, "intro")
               ELSE [st0 EXCEPT !.log = Append(@, E("sendMessage", 0, "introFailed"))]
    IN  /\ lifePc = "intro"
        /\ knownIds' = st1.known
        /\ remoteMsgs' = st1.remote
        /\ lifeLog' = st1.log
        /\ jobStatus' = "PENDING"
        /\ lifePc' = Phase("PENDING")
        /\ UNCHANGED <<ticks, lifeError, busVars, reqVars, sigVars, cfgVars>>

(***************************************************************************)
(* Initial states and specifications                                       *)
(***************************************************************************)
BusInit ==
    /\ webhookUrl \in BOOLEAN
    /\ pendingResolvers = [k \in Keys |-> 0]
    /\ bufferedEvents = [k \in Keys |-> 0]
    /\ calls = <<>>
    /\ published = <<>>
    /\ unclaimed = [k \in Keys |-> 0]
    /\ webhookStatus = 0
    /\ webhookRequest = NoRequest

\* the event bus before any call, without a webhook server
BusIdle ==
    /\ webhookUrl = FALSE
    /\ pendingResolvers = [k \in Keys |-> 0]
    /\ bufferedEvents = [k \in Keys |-> 0]
    /\ calls = <<>>
    /\ published = <<>>
    /\ unclaimed = [k \in Keys |-> 0]
    /\ webhookStatus = 0
    /\ webhookRequest = NoRequest

ReqInit ==
    /\ variant \in Variants
    /\ paymentConfigured \in BOOLEAN
    /\ httpClient = FALSE
    /\ reqPc = "fetch"
    /\ attempt = 0
    /\ lastError = NoError
    /\ result = "none"
    /\ signCount = 0
    /\ log = <<>>

\* no call of request() under way
ReqIdle ==
    /\ variant = "x402"
    /\ httpClient = FALSE
    /\ reqPc = "idle"
    /\ attempt = 0
    /\ lastError = NoError
    /\ result = "none"
    /\ signCount = 0
    /\ log = <<>>

\* a signed webhook request arrives while the lifecycle is in a wait
webhookDuringWait(body) ==
    /\ Len(published) < MaxLifeEvents
    /\ lifePc \in {"waitAccepted", "waitCompleted"}
    /\ webhookPost("valid", body)

LifeInit ==
    /\ lifePc = "start"
    /\ jobStatus = "none"
    /\ knownIds = {}
    /\ remoteMsgs = <<>>
    /\ ticks = 0
    /\ lifeError = "none"
    /\ lifeLog = <<>>

\* no lifecycle under way
LifeIdle ==
    /\ lifePc = "idle"
    /\ jobStatus = "none"
    /\ knownIds = {}
    /\ remoteMsgs = <<>>
    /\ ticks = 0
    /\ lifeError = "none"
    /\ lifeLog = <<>>

\* verifySignature not called yet
SigIdle ==
    /\ sigBody = 0
    /\ sigSignature = <<>>
    /\ sigResult = "none"

Init == BusInit /\ ReqIdle /\ paymentConfigured = FALSE /\ LifeIdle /\ SigIdle /\ ConfigLoaded

Next ==
    \/ \E j \in Jobs, e \in Kinds : waitForEvent(j, e)
    \/ \E c \in 1..MaxCalls : waitTimeout(c)
    \/ \E s \in SignatureCases, b \in WebhookBodies : webhookPost(s, b)
    \/ \E c \in 1..MaxCalls, f \in Statuses \cup {"error"}, x \in BOOLEAN : pollForStatus(c, f, x)

Spec == Init /\ [][Next]_vars

\* the start of a bot: the configuration is loaded, then index.ts starts the
\* webhook server when a webhook URL is set and the bot runs
InitConfig ==
    /\ BusInit /\ ReqIdle /\ paymentConfigured = FALSE /\ LifeIdle /\ SigIdle
    /\ webhookSecret \in SecretLengths
    /\ startup = "loading"

NextConfig ==
    \/ loadConfig
    \/ startup = "started" /\ Next

SpecConfig == InitConfig /\ [][NextConfig]_vars

InitReq == ReqInit /\ BusIdle /\ LifeIdle /\ SigIdle /\ ConfigLoaded

NextReq ==
    \/ \E r \in Responses : reqFetch(r)
    \/ \E ok \in BOOLEAN, cl \in {"ok", "throws"}, sg \in {"ok", "throws"} : reqConfirm(ok, cl, sg)
    \/ \E r \in Responses : reqPaidFetch(r)
    \/ reqSleep

SpecReq == InitReq /\ [][NextReq]_vars

InitLife == BusInit /\ ReqIdle /\ paymentConfigured \in BOOLEAN /\ LifeInit /\ SigIdle /\ ConfigLoaded

NextLife ==
    \/ \E st \in EntryStatuses : lifeStart(st)
    \/ \E f \in Statuses \cup {"error"}, x \in BOOLEAN, m \in BOOLEAN,
          o \in [HumanIds -> CallbackOutcomes] : lifePoll(f, x, m, o)
    \/ \E p \in BOOLEAN, c \in BOOLEAN : lifeCoordinate(p, c)
    \/ \E o \in PayOutcomes : lifePay(o)
    \/ \E ok \in BOOLEAN : lifeReview(ok)
    \/ humanPosts
    \/ \E b \in WebhookBodies : webhookDuringWait(b)

SpecLife == InitLife /\ [][NextLife]_vars

\* the messages a job can have when it is resumed
Histories ==
    {<<>>, <<[id |-> 1, senderType |-> "human"]>>,
     <<[id |-> 1, senderType |-> "human"], [id |-> 101, senderType |-> "agent"]>>}

ResumeInit ==
    /\ lifePc = "resume"
    /\ jobStatus = "none"
    /\ knownIds = {}
    /\ remoteMsgs \in Histories
    /\ ticks = 0
    /\ lifeError = "none"
    /\ lifeLog = <<>>

InitResume == BusIdle /\ ReqIdle /\ paymentConfigured \in BOOLEAN /\ ResumeInit /\ SigIdle /\ ConfigLoaded

NextResume ==
    \/ \E f \in ResumeStatuses \cup {"error"}, m \in BOOLEAN : resumeBot(f, m)
    \/ \E f \in Statuses \cup {"error"}, x \in BOOLEAN, m \in BOOLEAN,
          o \in [HumanIds -> CallbackOutcomes] : lifePoll(f, x, m, o)
    \/ \E p \in BOOLEAN, c \in BOOLEAN : lifeCoordinate(p, c)
    \/ \E o \in PayOutcomes : lifePay(o)
    \/ \E ok \in BOOLEAN : lifeReview(ok)
    \/ humanPosts

SpecResume == InitResume /\ [][NextResume]_vars

\* both bots without a webhook URL, on a job whose human writes no message:
\* marketing-bot resumes it, errand-bot's runBot has sent its offer and
\* reaches step 6
BotsInit ==
    /\ variant \in {"x402", "errand"}
    /\ lifePc = IF variant = "errand" THEN "start" ELSE "resume"
    /\ jobStatus = "none"
    /\ knownIds = {}
    /\ remoteMsgs = <<>>
    /\ ticks = 0
    /\ lifeError = "none"
    /\ lifeLog = <<>>

InitBots ==
    /\ BusIdle /\ SigIdle /\ BotsInit /\ ConfigLoaded
    /\ paymentConfigured \in BOOLEAN
    /\ httpClient = FALSE /\ reqPc = "idle" /\ attempt = 0 /\ lastError = NoError
    /\ result = "none" /\ signCount = 0 /\ log = <<>>

NextBots ==
    \/ \E f \in ResumeStatuses \cup {"error"}, m \in BOOLEAN : resumeBot(f, m)
    \/ lifeStart("PENDING")
    \/ \E f \in Statuses \cup {"error"}, x \in BOOLEAN, m \in BOOLEAN,
          o \in [HumanIds -> CallbackOutcomes] : lifePoll(f, x, m, o)
    \/ \E p \in BOOLEAN, c \in BOOLEAN : lifeCoordinate(p, c)
    \/ \E o \in IF variant = "errand" THEN ErrandPayOutcomes ELSE PayOutcomes : lifePay(o)
    \/ \E ok \in BOOLEAN : lifeReview(ok)

SpecBots == InitBots /\ [][NextBots]_vars

\* a fresh start of either bot, up to the end of its acceptance wait
StartInit ==
    /\ variant \in {"x402", "errand"}
    /\ lifePc = "register"
    /\ jobStatus = "none"
    /\ knownIds = {}
    /\ remoteMsgs = <<>>
    /\ ticks = 0
    /\ lifeError = "none"
    /\ lifeLog = <<>>

InitStart ==
    /\ BusIdle /\ SigIdle /\ StartInit /\ ConfigLoaded
    /\ paymentConfigured \in BOOLEAN
    /\ httpClient = FALSE /\ reqPc = "idle" /\ attempt = 0 /\ lastError = NoError
    /\ result = "none" /\ signCount = 0 /\ log = <<>>

NextStart ==
    \/ \E k \in BOOLEAN, ok \in BOOLEAN : runRegister(k, ok)
    \/ \E st \in ActivationStatuses \cup {"error"}, ok \in BOOLEAN : runActivation(st, ok)
    \/ \E ok \in BOOLEAN : runFetchHuman(ok)
    \/ \E a \in BOOLEAN, b \in BOOLEAN : runConfirm(a, b)
    \/ \E ok \in BOOLEAN : runCreateJob(ok)
    \/ \E ok \in BOOLEAN : runIntro(ok)
    \/ \E f \in Statuses \cup {"error"}, x \in BOOLEAN, m \in BOOLEAN,
          o \in [HumanIds -> CallbackOutcomes] : lifePoll(f, x, m, o)
    \/ humanPosts

SpecStart == InitStart /\ [][NextStart]_vars

\* one polling wait on its own, for the acceptance or for the completion
WaitInit ==
    /\ lifePc \in {"waitAccepted", "waitCompleted"}
    /\ jobStatus = IF lifePc = "waitAccepted" THEN "PENDING" ELSE "PAID"
    /\ knownIds = {}
    /\ remoteMsgs = <<>>
    /\ ticks = 0
    /\ lifeError = "none"
    /\ lifeLog = <<>>

InitWait == BusIdle /\ ReqIdle /\ paymentConfigured = FALSE /\ WaitInit /\ SigIdle /\ ConfigLoaded

NextWaitPoll ==
    \E st \in Statuses \cup {"error"}, f \in JobFields, x \in BOOLEAN, m \in BOOLEAN,
       o \in [HumanIds -> CallbackOutcomes] : waitPoll(FetchedJob(st, f), x, m, o)

NextWait == NextWaitPoll \/ humanPosts

SpecWait == InitWait /\ [][NextWait]_vars

\* the async function goes on whenever what it awaits has settled
SpecWaitFair == SpecWait /\ WF_vars(NextWaitPoll)

\* the messages of the human that are on the job when a wait starts
Batches == {[i \in 1..n |-> [id |-> i, senderType |-> "human"]] : n \in 1..MaxBatch}

\* one polling wait on a job that has unread messages of the human
BatchInit ==
    /\ lifePc \in {"waitAccepted", "waitCompleted"}
    /\ jobStatus = IF lifePc = "waitAccepted" THEN "PENDING" ELSE "PAID"
    /\ knownIds = {}
    /\ remoteMsgs \in Batches
    /\ ticks = 0
    /\ lifeError = "none"
    /\ lifeLog = <<>>

InitBatch == BusIdle /\ ReqIdle /\ paymentConfigured = FALSE /\ BatchInit /\ SigIdle /\ ConfigLoaded

NextBatch ==
    \E st \in Statuses \cup {"error"}, x \in BOOLEAN, m \in BOOLEAN,
       o \in [1..MaxBatch -> CallbackOutcomes] : waitPoll(FetchedJob(st, "f1"), x, m, o)

SpecBatch == InitBatch /\ [][NextBatch]_vars

\* the bit b of character code c inverted
FlipBit(c, b) == IF (c \div (2 ^ b)) % 2 = 1 THEN c - 2 ^ b ELSE c + 2 ^ b

\* the strings that differ from str in one bit of one character
OneBitOff(str) == {[str EXCEPT ![i] = FlipBit(str[i], b)] : i \in 1..Len(str), b \in 0..6}

\* the strings that are str cut short or followed by one or two more characters
OtherLength(str) ==
    {SubSeq(str, 1, n) : n \in 0..(Len(str) - 1)}
    \cup {Append(str, c) : c \in {48, 122}}
    \cup {str \o <<122, 122>>}

\* the header values verifySignature is called with: the signatures of the
\* bodies and their neighbours
SigInputs ==
    UNION {{HexEncode(Hmac(b))} \cup OneBitOff(HexEncode(Hmac(b))) \cup OtherLength(HexEncode(Hmac(b))) :
              b \in SigBodies}

InitSig == BusIdle /\ ReqIdle /\ paymentConfigured = FALSE /\ LifeIdle /\ SigIdle /\ ConfigLoaded

NextSig == \E b \in SigBodies, sig \in SigInputs : sigVerify(b, sig)

SpecSig == InitSig /\ [][NextSig]_vars

(***************************************************************************)
(* Event Bus properties                                                    *)
(***************************************************************************)
TypeOKBus ==
    /\ webhookUrl \in BOOLEAN
    /\ pendingResolvers \in [Keys -> 0..MaxCalls]
    /\ bufferedEvents \in [Keys -> 0..MaxEvents]
    /\ Len(calls) <= MaxCalls
    /\ Len(published) <= MaxEvents

\* the step is a waitForEvent call on key k
IsWaitStep(k) ==
    /\ Len(calls') = Len(calls) + 1
    /\ EventKey(calls'[Len(calls')].jobId, calls'[Len(calls')].event) = k

\* the step is a dispatchEvent of a payload with key k
IsDispatchStep(k) ==
    /\ Len(published') = Len(published) + 1
    /\ EventKey(published'[Len(published')].jobId, published'[Len(published')].event) = k

\* C1: in push mode, when an event for a key was dispatched while no resolver
\* was stored for the key (and no waitForEvent on the key came since), the
\* next waitForEvent on the key resolves at once with exactly that payload,
\* stores no resolver, and leaves no buffer entry for the key.
C1_BufferedEventDelivered ==
    [][\A k \in Keys :
        (webhookUrl /\ IsWaitStep(k) /\ unclaimed[k] # 0) =>
            /\ calls'[Len(calls')].state = "resolved"
            /\ calls'[Len(calls')].payload = unclaimed[k]
            /\ calls'[Len(calls')].timer = "none"
            /\ bufferedEvents'[k] = 0
            /\ pendingResolvers' = pendingResolvers]_vars

C1_Witness ==
    \E c \in 1..Len(calls) :
        /\ webhookUrl
        /\ calls[c].state = "resolved"
        /\ calls[c].timer = "none"
        /\ calls[c].payload \in 1..Len(published)
        /\ KeyOfPayload(calls[c].payload) = KeyOfCall(c)
        /\ bufferedEvents[KeyOfCall(c)] = 0

\* C2: when an event is dispatched while a resolver is stored for its key, the
\* call that stored it resolves with exactly that payload, the key leaves
\* pendingResolvers, and bufferedEvents gets no entry for the key.
C2_WaiterResolvedNoBuffer ==
    [][\A k \in Keys :
        (IsDispatchStep(k) /\ pendingResolvers[k] # 0) =>
            LET c == pendingResolvers[k] IN
            /\ calls[c].state = "pending"
            /\ calls'[c].state = "resolved"
            /\ calls'[c].payload = Len(published')
            /\ pendingResolvers'[k] = 0
            /\ bufferedEvents' = bufferedEvents
            /\ bufferedEvents'[k] = 0]_vars

C2_Witness ==
    \E c \in 1..Len(calls) :
        /\ calls[c].state = "resolved"
        /\ calls[c].timer = "cleared"
        /\ pendingResolvers[KeyOfCall(c)] = 0
        /\ bufferedEvents[KeyOfCall(c)] = 0

\* C3: a call whose timer fires while it is pending is rejected with the
\* timeout error and is no longer in pendingResolvers, for good; a rejected
\* call is never changed by a later dispatch; an event dispatched while no
\* resolver is stored for its key becomes the key's buffer entry; and the
\* next waitForEvent on that key resolves with the buffered payload.
C3_TimedOutNeverStored ==
    \A c \in 1..Len(calls) :
        calls[c].error = "timeout" => pendingResolvers[KeyOfCall(c)] # c

C3_TimeoutThenBuffered ==
    /\ []C3_TimedOutNeverStored
    /\ [][/\ \A c \in 1..Len(calls) :
                (calls[c].timer = "armed" /\ calls'[c].timer = "fired") =>
                    /\ calls'[c].state = "rejected"
                    /\ calls'[c].error = "timeout"
                    /\ pendingResolvers'[KeyOfCall(c)] = 0
          /\ \A c \in 1..Len(calls) :
                calls[c].state = "rejected" => calls'[c] = calls[c]
          /\ \A k \in Keys :
                (IsDispatchStep(k) /\ pendingResolvers[k] = 0) =>
                    /\ bufferedEvents'[k] = Len(published')
                    /\ calls' = calls
          /\ \A k \in Keys :
                (webhookUrl /\ IsWaitStep(k) /\ bufferedEvents[k] # 0) =>
                    /\ calls'[Len(calls')].state = "resolved"
                    /\ calls'[Len(calls')].payload = bufferedEvents[k]]_vars

\* a call timed out, and a later call on the same key was handed an event
\* that had been buffered
C3_Witness ==
    \E c, d \in 1..Len(calls) :
        /\ c < d
        /\ KeyOfCall(c) = KeyOfCall(d)
        /\ calls[c].state = "rejected"
        /\ calls[c].error = "timeout"
        /\ calls[c].timer = "fired"
        /\ calls[d].state = "resolved"
        /\ calls[d].timer = "none"
        /\ calls[d].payload \in 1..Len(published)

\* C4: every dispatched payload is the result of at most one waitForEvent
\* call, resolve/reject is invoked at most once on every call (so no call is
\* both resolved and rejected), and a payload that was delivered is in no
\* buffer entry.
C4_AtMostOnce ==
    /\ \A p \in 1..Len(published) :
          Cardinality({c \in 1..Len(calls) :
                          calls[c].state = "resolved" /\ calls[c].payload = p}) <= 1
    /\ \A c \in 1..Len(calls) :
          /\ calls[c].settles <= 1
          /\ calls[c].state = "resolved" => calls[c].error = "none"
          /\ calls[c].state = "rejected" => calls[c].payload = 0
          /\ calls[c].state \in {"resolved", "rejected"} => calls[c].settles = 1
    /\ \A c \in 1..Len(calls), k \in Keys :
          (calls[c].state = "resolved" /\ calls[c].payload > 0) =>
              bufferedEvents[k] # calls[c].payload

\* one call got a buffered event, another was resolved by a dispatch, a third timed out
C4_Witness ==
    \E a, b, c \in 1..Len(calls) :
        /\ calls[a].state = "resolved" /\ calls[a].timer = "none" /\ calls[a].payload > 0
        /\ calls[b].state = "resolved" /\ calls[b].timer = "cleared"
        /\ calls[c].state = "rejected" /\ calls[c].timer = "fired"

(***************************************************************************)
(* request() properties                                                    *)
(***************************************************************************)
LogIdx == 1..Len(log)
RequestIdx == {i \in LogIdx : log[i].op = "request"}
\* the responses to requests sent without / with the x-payment header
PlainResponseIdx == {i \in LogIdx : i > 1 /\ log[i].op = "response" /\ log[i - 1] = E("request", 0, "")}
PaidResponseIdx == {i \in LogIdx : i > 1 /\ log[i].op = "response" /\ log[i - 1].op = "request" /\ log[i - 1].n > 0}
DelaysUpTo(i) == Cardinality({j \in 1..i : log[j].op = "delay"})
ResponseStatuses == [i \in 1..Cardinality({j \in LogIdx : log[j].op = "response"}) |->
                        log[CHOOSE j \in LogIdx : log[j].op = "response"
                               /\ Cardinality({k \in 1..j : log[k].op = "response"}) = i].n]

\* C6: a 4xx response other than 402, whatever its body, ends the call in
\* failure at once: nothing but the throw follows it, no delay, no request.
C6_ClientErrorFailsAtOnce ==
    \A i \in LogIdx :
        (log[i].op = "response" /\ IsClientError(log[i].n) /\ log[i].n # 402) =>
            /\ reqPc = "failed"
            /\ Len(log) = i + 1
            /\ log[i + 1].op = "throw"

\* C7: a delay (and the retry after it) follows only a failure that is not a
\* 4xx response; the k-th delay is RETRY_DELAYS[k]; every request sent without
\* payment header after the first follows a delay; at most 4 requests are sent;
\* a failed call ends with its throw, not with a delay; 503, 503, 200 succeeds
\* after exactly the delays 1000 and 4000.
C7_BackoffSchedule ==
    /\ \A i \in LogIdx : log[i].op = "delay" =>
          /\ i > 1 /\ log[i - 1].op = "throw" /\ ~IsClientError(log[i - 1].n)
          /\ DelaysUpTo(i) <= Len(RETRY_DELAYS)
          /\ log[i].n = RETRY_DELAYS[DelaysUpTo(i)]
    /\ \A i \in RequestIdx : (i > 1 /\ log[i].n = 0) => log[i - 1].op = "delay"
    /\ Cardinality(RequestIdx) <= Len(RETRY_DELAYS) + 1
    /\ reqPc = "failed" => (log[Len(log)].op = "throw" /\ lastError.text = log[Len(log)].s)
    /\ (ResponseStatuses = <<503, 503, 200>> /\ log[Len(log)].s # "notjson") =>
          /\ reqPc = "done"
          /\ [i \in 1..DelaysUpTo(Len(log)) |->
                log[CHOOSE j \in LogIdx : log[j].op = "delay" /\ DelaysUpTo(j) = i].n] = <<1000, 4000>>

\* C8: a non-success response (4xx or 5xx) to the request re-issued with the
\* payment header ends the call in failure: nothing but the throw follows it.
C8_PaidFailureIsFinal ==
    \A i \in PaidResponseIdx :
        log[i].n >= 400 =>
            /\ reqPc = "failed"
            /\ Len(log) = i + 1
            /\ log[i + 1].op = "throw"

C10_NoPaymentNoRetry ==
    \A i \in PlainResponseIdx :
        (variant = "x402" /\ log[i].n = 402) =>
            /\ (log[i].s # "accepts" \/ ~paymentConfigured) =>
                  /\ reqPc = "failed"
                  /\ Len(log) = i + 1
                  /\ log[i + 1].op = "throw"
                  /\ log[i].s # "accepts" => log[i + 1].s = "no x402 payment options"
                  /\ i = 2 => (Cardinality(RequestIdx) = 1 /\ signCount = 0)
            /\ (i < Len(log) /\ log[i + 1] = E("confirm", 0, "")) =>
                  /\ reqPc = "failed"
                  /\ Len(log) = i + 2
                  /\ log[i + 2].op = "throw"
                  /\ i = 2 => (Cardinality(RequestIdx) = 1 /\ signCount = 0)

\* the operator refused the payment of the first request
C10_Witness ==
    /\ reqPc = "failed"
    /\ Len(log) = 4
    /\ log[2] = E("response", 402, "accepts")
    /\ log[3] = E("confirm", 0, "")
    /\ signCount = 0

(***************************************************************************)
(* Lifecycle properties                                                    *)
(***************************************************************************)
LifeIdx == 1..Len(lifeLog)

\* C5: with a webhook URL configured the lifecycle never polls the job status,
\* and every wait that returned was satisfied by a payload the webhook
\* receiver dispatched to a waitForEvent call for that event; polling happens
\* only without a webhook URL.
C5_PushWhenConfigured ==
    webhookUrl =>
        /\ \A i \in LifeIdx : lifeLog[i].op # "getJob"
        /\ \A i \in LifeIdx : lifeLog[i].op = "return" =>
              \E c \in 1..Len(calls) :
                  /\ calls[c].event = lifeLog[i].s
                  /\ calls[c].state = "resolved"
                  /\ calls[c].payload \in 1..Len(published)

(***************************************************************************)
(* Webhook receiver properties                                             *)
(***************************************************************************)
\* the step is a POST /webhook request
IsWebhookStep == webhookRequest' # webhookRequest \/ webhookStatus' # webhookStatus \/ published' # published

\* C11: a request without signature header is answered 401; else one whose
\* signature does not verify is answered 401; else one whose body is not
\* parseable JSON is answered 400; and none of these publishes anything.  Any
\* other request is answered 200 in the step that publishes its event,
\* whether or not a resolver is stored for the event's key.
C11_HandlerOrder ==
    [][IsWebhookStep =>
        LET r == webhookRequest' IN
        IF r.signature = "missing" THEN webhookStatus' = 401 /\ published' = published
        ELSE IF r.signature # "valid" THEN webhookStatus' = 401 /\ published' = published
        ELSE IF ~(r.body.raw /\ r.body.json) THEN webhookStatus' = 400 /\ published' = published
        ELSE /\ webhookStatus' = 200
             /\ published' = Append(published, [jobId |-> r.body.jobId, event |-> r.body.event])]_vars

\* C12: a request without signature, with a signature that does not verify or
\* with a body that is not JSON leaves pendingResolvers, bufferedEvents and
\* every call as they were and publishes nothing; and a pending call is
\* resolved only in the step of a request whose signature verifies.
C12_RejectedLeavesBus ==
    [][/\ IsWebhookStep =>
             LET r == webhookRequest' IN
             (r.signature # "valid" \/ ~r.body.json \/ webhookStatus' # 200) =>
                 /\ pendingResolvers' = pendingResolvers
                 /\ bufferedEvents' = bufferedEvents
                 /\ calls' = calls
                 /\ published' = published
       /\ \A c \in 1..Len(calls) :
             (calls[c].state = "pending" /\ calls'[c].state = "resolved") =>
                 /\ webhookRequest'.signature = "valid"
                 /\ webhookRequest'.body.json
                 /\ webhookStatus' = 200
                 /\ calls'[c].payload = Len(published')]_vars

\* a request with a bad signature for an awaited event was refused and the
\* call is still waiting
C12_Witness ==
    /\ webhookRequest.signature = "invalid"
    /\ webhookRequest.body.json
    /\ webhookStatus = 401
    /\ pendingResolvers[EventKey(webhookRequest.body.jobId, webhookRequest.body.event)] # 0
    /\ published = <<>>

\* the bodies that differ from body b in one bit
OneBitOffBody(b) == {c \in SigBodies : \E k \in 0..(BodyBits - 1) : c = FlipBit(b, k)}

\* C13: verifySignature(B, sig) is true when sig is the lower-case hex HMAC of
\* B, and false (never a throw) whenever the pair differs from a body and its
\* hex HMAC in one bit of the body, in one bit of the signature string, or by
\* a signature string of another length or with other characters after it.
C13_SignatureVerification ==
    sigResult # "none" =>
        /\ sigSignature = HexEncode(Hmac(sigBody)) => sigResult = "true"
        /\ \A b \in SigBodies :
              \/ (sigSignature = HexEncode(Hmac(b)) /\ sigBody \in OneBitOffBody(b))
              \/ (sigBody = b /\ sigSignature \in OneBitOff(HexEncode(Hmac(b))))
              \/ (sigBody = b /\ sigSignature \in OtherLength(HexEncode(Hmac(b))))
              => sigResult = "false"

(***************************************************************************)
(* Polling wait properties                                                 *)
(***************************************************************************)
\* the event kind of the wait of SpecWait
WaitKind == IF jobStatus = "PENDING" THEN "job.accepted" ELSE "job.completed"
FetchIdx == {i \in LifeIdx : lifeLog[i].op = "getJob"}
SleepsBefore(i) == Cardinality({j \in 1..i : lifeLog[j].op = "sleep"})
FetchesBefore(i) == Cardinality({j \in 1..(i - 1) : lifeLog[j].op = "getJob"})
InWait == lifePc \in {"waitAccepted", "waitCompleted"}

\* C14: a fetch whose status is the target status of the awaited kind K is the
\* last fetch of the wait: the wait returns in that pass, after exactly one
\* sleep per earlier fetch, an event with kind K, the job id, the fetched
\* status and the fields of the job fetched in that pass; and the wait returns
\* in no other way.
C14_PollReturnsAtTarget ==
    /\ \A i \in FetchIdx : lifeLog[i].s = EVENT_TO_STATUS(WaitKind) =>
          /\ Len(lifeLog) = i + 1
          /\ lifeLog[i + 1].op = "return"
          /\ lifeLog[i + 1].payload = [event |-> WaitKind, jobId |-> lifeJobId,
                                       status |-> lifeLog[i].s, data |-> lifeLog[i].job.fields]
          /\ SleepsBefore(i) = FetchesBefore(i)
          /\ ~InWait /\ lifePc # "failed"
    /\ \A i \in LifeIdx : lifeLog[i].op = "return" =>
          i > 1 /\ lifeLog[i - 1].op = "getJob" /\ lifeLog[i - 1].s = EVENT_TO_STATUS(WaitKind)
    /\ ~InWait /\ lifePc # "failed" => lifeLog # <<>> /\ lifeLog[Len(lifeLog)].op = "return"

\* PENDING, PENDING, ACCEPTED: returned on the third fetch after two sleeps
C14_Witness ==
    /\ Cardinality(FetchIdx) = 3
    /\ \E i, j, k \in FetchIdx :
          /\ i < j /\ j < k
          /\ lifeLog[i].s = "PENDING" /\ lifeLog[j].s = "PENDING" /\ lifeLog[k].s = "ACCEPTED"
          /\ lifeLog[k].job.fields # lifeLog[j].job.fields
    /\ SleepsBefore(Len(lifeLog)) = 2
    /\ lifeLog[Len(lifeLog)].op = "return"
    /\ lifePc = "coordinate"

\* C15: in a wait for 'job.accepted', a fetch that returns REJECTED is the last
\* thing the wait does: it fails in that pass with the rejection error, with no
\* message fetch, sleep or status fetch after it.
C15_RejectionFailsAtOnce ==
    \A i \in FetchIdx :
        (WaitKind = "job.accepted" /\ lifeLog[i].s = "REJECTED") =>
            /\ Len(lifeLog) = i
            /\ lifePc = "failed"
            /\ lifeError = "rejected"

\* the job was rejected after the wait had slept once
C15_Witness ==
    /\ lifeError = "rejected"
    /\ lifePc = "failed"
    /\ ticks >= 1
    /\ lifeLog[Len(lifeLog)].s = "REJECTED"

C16_TimeoutIsFinal ==
    \A i \in LifeIdx : lifeLog[i].op = "timeout" =>
        /\ Len(lifeLog) = i
        /\ lifePc = "failed"
        /\ lifeError = "timeout"
        /\ lifeLog[i].s = WaitKind
        /\ lifeLog[i].jobId = lifeJobId

\* C16: a polling wait ends; a pass that starts after the deadline does
\* nothing but fail the wait with the timeout error, which names the job and
\* the awaited event kind, and no pass follows it.
C16_WaitTerminates == []C16_TimeoutIsFinal /\ <>(~InWait)

\* the wait timed out after all its sleeps without fetching the target status
C16_Witness ==
    /\ lifeError = "timeout"
    /\ lifePc = "failed"
    /\ ticks = MaxPolls
    /\ \A i \in FetchIdx : lifeLog[i].s # EVENT_TO_STATUS(WaitKind)

\* C18: a failed message fetch is followed by the sleep of its pass, and then
\* by the next pass (a status fetch, or the timeout); every pass that does not
\* end the wait fetches the messages; the wait fails only by the timeout or in
\* a status fetch.
C18_MessageFailureSwallowed ==
    /\ \A i \in LifeIdx : lifeLog[i] = E("getMessages", 0, "failed") =>
          /\ i < Len(lifeLog) /\ lifeLog[i + 1].op = "sleep"
          /\ i + 2 <= Len(lifeLog) => lifeLog[i + 2].op \in {"getJob", "timeout"}
          /\ i + 1 = Len(lifeLog) => InWait
    /\ \A i \in FetchIdx : i < Len(lifeLog) => lifeLog[i + 1].op \in {"getMessages", "return"}
    /\ lifePc = "failed" => lifeLog[Len(lifeLog)].op \in {"timeout", "getJob"}

\* the message fetch failed in one pass and succeeded in the next
C18_Witness ==
    \E i, j \in LifeIdx :
        /\ i < j
        /\ lifeLog[i] = E("getMessages", 0, "failed")
        /\ lifeLog[j] = E("getMessages", 0, "ok")

CallbackIdx == {i \in LifeIdx : lifeLog[i].op = "onMessage"}

C17_CallbackOncePerMessage ==
    /\ \A i \in CallbackIdx :
          /\ \E k \in 1..Len(remoteMsgs) :
                remoteMsgs[k].id = lifeLog[i].n /\ remoteMsgs[k].senderType = "human"
          /\ lifeLog[i].n \in knownIds
    /\ \A i, j \in CallbackIdx : lifeLog[i].n = lifeLog[j].n => i = j
    /\ \A i \in LifeIdx : (lifeLog[i].op = "sendMessage" /\ lifeLog[i].s = "reply") =>
          /\ i - 1 \in CallbackIdx
          /\ lifeLog[i - 1].s = "replied"

\* C17: the callback is invoked only for a message of the human whose id is
\* not in knownIds when the pass reaches it, and the id is in knownIds from
\* then on, whatever the callback does; over the lifecycle no message id is
\* handed to the callback twice and every reply follows its own callback.
C17_KnownIdsGuardCallback ==
    /\ []C17_CallbackOncePerMessage
    /\ [][\A i \in (Len(lifeLog) + 1)..Len(lifeLog') :
              lifeLog'[i].op = "onMessage" =>
                  /\ lifeLog'[i].n \notin knownIds
                  /\ lifeLog'[i].n \in knownIds']_vars

\* a message was answered in the first wait and fetched again, unanswered, in
\* the second
C17_Witness ==
    \E i, j, k \in LifeIdx :
        /\ i < j /\ j < k
        /\ lifeLog[i].op = "onMessage"
        /\ lifeLog[j].op = "return"
        /\ lifeLog[k] = E("getMessages", 0, "ok")
        /\ Cardinality(CallbackIdx) = 1

C20_ResumeTerminal ==
    /\ [](lifeLog # <<>> /\ lifeLog[1].s \in {"REJECTED", "REVIEWED"} =>
             /\ lifeLog = <<E("getJob", 0, lifeLog[1].s)>>
             /\ lifePc = "done"
             /\ jobStatus = "none"
             /\ knownIds = {}
             /\ lifeError = "none")
    /\ [][(lifeLog = <<>> /\ lifeLog' # <<>> /\ lifeLog'[1].s \in {"REJECTED", "REVIEWED"}) =>
              remoteMsgs' = remoteMsgs]_vars

\* a reviewed job with messages was resumed and left alone
C20_Witness ==
    /\ lifePc = "done"
    /\ lifeLog = <<E("getJob", 0, "REVIEWED")>>
    /\ Len(remoteMsgs) = 2

(***************************************************************************)
(* The phase sequence                                                      *)
(***************************************************************************)
\* the place of a status in PENDING/OFFERED, ACCEPTED, PAID, COMPLETED;
\* 5 for a status that has no phase
StatusRank(status) ==
    CASE status \in {"PENDING", "OFFERED"} -> 1
      [] status = "ACCEPTED" -> 2
      [] status = "PAID" -> 3
      [] status = "COMPLETED" -> 4
      [] OTHER -> 5

\* the place of a position of the lifecycle in the phase sequence
PcRank(pc) ==
    CASE pc \in {"waitAccepted", "coordinate"} -> 1
      [] pc = "pay" -> 2
      [] pc = "waitCompleted" -> 3
      [] pc = "review" -> 4
      [] OTHER -> 5

PayOps == {"loadWalletAccount", "getUsdcBalance", "resolveRecipientWallet", "confirm",
           "sendUsdc", "markJobPaid", "paymentFailed", "noWallet"}

\* the phase a logged call belongs to; 0: a call made in both waits
EntryRank(e) ==
    CASE e.op \in {"return", "timeout"} -> IF e.s = "job.accepted" THEN 1 ELSE 3
      [] e.op = "getHumanProfile" -> IF e.s \in {"ok", "failed"} THEN 1 ELSE 2
      [] e.op = "sendMessage" /\ e.s \in {"coordination", "failed"} -> 1
      [] e.op \in PayOps -> 2
      [] e.op = "reviewJob" -> 4
      [] OTHER -> 0

\* resumeBot has called runJobLifecycle
ResumeEntered ==
    /\ Len(lifeLog) >= 2
    /\ lifeLog[1].op = "getJob"
    /\ lifeLog[2].op = "getMessages"

\* C21: a job resumed at status S enters the phase sequence at S: no call of
\* a phase before S is ever made, and for S = PAID what directly follows the
\* resume is the wait for 'job.completed'
C21_ResumeEntersAtStatus ==
    ResumeEntered =>
        /\ PcRank(lifePc) >= StatusRank(lifeLog[1].s)
        /\ \A i \in 3..Len(lifeLog) :
               EntryRank(lifeLog[i]) \in {0} \cup (StatusRank(lifeLog[1].s)..5)
        /\ (lifeLog[1].s = "PAID" /\ Len(lifeLog) = 2) =>
               (lifePc = "waitCompleted" /\ WaitEvent = "job.completed")

C21_Witness ==
    /\ ResumeEntered
    /\ lifeLog[1].s = "PAID"
    /\ lifePc = "review"
    /\ \E i \in 3..Len(lifeLog) : lifeLog[i].op = "return" /\ lifeLog[i].s = "job.completed"

\* the status the lifecycle is entered with: the one resumeBot fetched, or
\* PENDING for the offer errand-bot's runBot has just made
EntryStatus == IF variant = "errand" THEN "PENDING" ELSE lifeLog[1].s

\* the lifecycle has been entered
BotEntered == IF variant = "errand" THEN lifePc # "start" ELSE ResumeEntered

\* the log from the entry of the lifecycle on
PhaseIdx == {i \in 1..Len(lifeLog) : variant = "errand" \/ i >= 3}

ReturnIdx(event) == {i \in PhaseIdx : lifeLog[i].op = "return" /\ lifeLog[i].s = event}

PayStartIdx == {i \in PhaseIdx : lifeLog[i].op \in {"loadWalletAccount", "noWallet"}}

ReviewIdx == {i \in PhaseIdx : lifeLog[i].op = "reviewJob"}

C22_PhaseOrder ==
    BotEntered =>
        /\ \A i, j \in PhaseIdx :
               (i < j /\ EntryRank(lifeLog[i]) # 0 /\ EntryRank(lifeLog[j]) # 0)
                   => EntryRank(lifeLog[i]) <= EntryRank(lifeLog[j])
        /\ Cardinality(ReturnIdx("job.accepted")) <= 1
        /\ Cardinality(ReturnIdx("job.completed")) <= 1
        /\ Cardinality(PayStartIdx) <= 1
        /\ Cardinality(ReviewIdx) <= 1
        /\ \A i \in ReviewIdx :
               \/ EntryStatus = "COMPLETED"
               \/ \E j \in ReturnIdx("job.completed") : j < i /\ lifeLog[j].payload.status = "COMPLETED"
        /\ \A i \in PhaseIdx : EntryRank(lifeLog[i]) = 2 =>
               \/ EntryStatus = "ACCEPTED"
               \/ \E j \in ReturnIdx("job.accepted") : j < i /\ lifeLog[j].payload.status = "ACCEPTED"

\* the local status keeps its place or moves to a later one
C22_StatusForward ==
    jobStatus # "none" => StatusRank(jobStatus') >= StatusRank(jobStatus)

\* C22: the phases occur in the order acceptance wait, payment, completion
\* wait, review, each at most once; the local status only moves forward; a
\* review follows an observed COMPLETED and a payment an observed acceptance
C22_FixedPhaseOrder == []C22_PhaseOrder /\ [][C22_StatusForward]_vars

C22_Witness ==
    /\ variant = "errand"
    /\ lifePc = "done"
    /\ ReviewIdx # {}
    /\ PayStartIdx # {}
    /\ jobStatus = "COMPLETED"

\* the passes at which a wait found its deadline passed
TimeoutIdx == {i \in PhaseIdx : lifeLog[i].op = "timeout"}

\* the fetches of the acceptance wait that returned REJECTED
RejectionIdx ==
    {i \in PhaseIdx : /\ lifeLog[i].op = "getJob"
                      /\ lifeLog[i].s = "REJECTED"
                      /\ StatusRank(EntryStatus) = 1
                      /\ \A j \in ReturnIdx("job.accepted") : i < j}

\* what the wait threw at entry i of the log
WaitErrorAt(i) == IF i \in TimeoutIdx THEN "timeout" ELSE "rejected"

\* the failure at entry i is the one of errand-bot's completion wait
CaughtAt(i) == variant = "errand" /\ i \in TimeoutIdx /\ lifeLog[i].s = "job.completed"

PayErrorIdx ==
    {i \in PhaseIdx : /\ EntryRank(lifeLog[i]) = 2
                      /\ \/ lifeLog[i].s \in {"throws", "short"}
                         \/ lifeLog[i].op = "getHumanProfile" /\ lifeLog[i].s = "noWallet"}

\* the entries of the catch block of the pay phase
PayCatchIdx == {i \in PhaseIdx : lifeLog[i].op = "paymentFailed"}

\* C24: an error raised by a call of the pay phase is caught and logged, and
\* what follows the catch is the wait for the completion, at status PAID
C24_PaymentErrorsCaught ==
    BotEntered =>
        /\ \A i \in PayErrorIdx : i + 1 \in PayCatchIdx
        /\ \A i \in PayCatchIdx :
               IF i = Len(lifeLog)
               THEN lifePc = "waitCompleted" /\ jobStatus = "PAID" /\ lifeError = "none"
               ELSE /\ lifeLog[i + 1].op \in {"getJob", "timeout"}
                    /\ lifeLog[i + 1].op = "timeout" => lifeLog[i + 1].s = "job.completed"

C24_Witness ==
    /\ BotEntered
    /\ \E i \in PayCatchIdx : lifeLog[i - 1].op = "sendUsdc"
    /\ ReturnIdx("job.completed") # {}

OpIdx(op) == {i \in PhaseIdx : lifeLog[i].op = op}

\* the last call of the pay phase
PayEnd == CHOOSE i \in PhaseIdx : EntryRank(lifeLog[i]) = 2 /\ \A j \in PhaseIdx : EntryRank(lifeLog[j]) = 2 => j <= i

\* what follows the pay phase is the wait for the completion
PayThenCompletionWait ==
    PayStartIdx # {} =>
        IF PayEnd = Len(lifeLog)
        THEN lifePc = "waitCompleted"
        ELSE /\ lifeLog[PayEnd + 1].op \in {"getJob", "timeout"}
             /\ lifeLog[PayEnd + 1].op = "timeout" => lifeLog[PayEnd + 1].s = "job.completed"

\* C25 as stated: without a payment capability no transfer is made and no
\* markJobPaid call is issued, and the completion wait follows
C25_NoWalletNoCalls ==
    (BotEntered /\ ~paymentConfigured) =>
        /\ OpIdx("sendUsdc") = {}
        /\ OpIdx("markJobPaid") = {}
        /\ PayThenCompletionWait

\* C25, amended: without a payment capability no transfer is made and the
\* completion wait follows; marketing-bot issues no markJobPaid call, and
\* errand-bot issues one, with the placeholder transaction hash
C25_NoWalletNoTransfer ==
    (BotEntered /\ ~paymentConfigured) =>
        /\ OpIdx("sendUsdc") = {}
        /\ PayThenCompletionWait
        /\ IF variant = "errand"
           THEN /\ \A i \in OpIdx("markJobPaid") : lifeLog[i].n = 0
                /\ Cardinality(OpIdx("markJobPaid")) = IF PayStartIdx = {} THEN 0 ELSE 1
           ELSE OpIdx("markJobPaid") = {}

C25_Witness ==
    /\ BotEntered
    /\ ~paymentConfigured
    /\ variant = "errand"
    /\ OpIdx("markJobPaid") # {}
    /\ ReturnIdx("job.completed") # {}

\* the balance covers the price and a recipient address was found, before
\* entry i of the log
FundedAndAddressed(i) ==
    /\ \E j \in OpIdx("getUsdcBalance") : j < i /\ lifeLog[j].s = "enough"
    /\ \/ \E j \in OpIdx("resolveRecipientWallet") : j < i /\ lifeLog[j].s = "address"
       \/ \E j \in OpIdx("getHumanProfile") : j < i /\ lifeLog[j].s = "wallet"

\* the operator answered yes to 'Confirm payment?' before entry i
OperatorConfirmed(i) == \E j \in OpIdx("confirm") : j < i /\ lifeLog[j].n = 1

\* C26 as stated: a transfer is started only with a sufficient balance, a
\* resolved recipient and the operator's confirmation
C26_TransferNeedsConfirmation ==
    BotEntered =>
        \A i \in OpIdx("sendUsdc") : FundedAndAddressed(i) /\ OperatorConfirmed(i)

\* C26, amended: a transfer is started only with a sufficient balance and a
\* resolved recipient, and in marketing-bot only after the operator's
\* confirmation; errand-bot asks no operator
C26_TransferGuarded ==
    BotEntered =>
        /\ \A i \in OpIdx("sendUsdc") :
               /\ FundedAndAddressed(i)
               /\ variant # "errand" => OperatorConfirmed(i)
               /\ paymentConfigured
        /\ variant = "errand" => OpIdx("confirm") = {}
        /\ Cardinality(OpIdx("sendUsdc")) <= 1

C26_Witness ==
    /\ BotEntered
    /\ variant = "errand"
    /\ OpIdx("sendUsdc") # {}
    /\ lifePc = "waitCompleted"

(***************************************************************************)
(* The activation check                                                    *)
(***************************************************************************)
\* the status fetches that returned a status other than ACTIVE
NotActiveIdx ==
    {i \in 1..Len(lifeLog) : /\ lifeLog[i].op = "getActivationStatus"
                             /\ lifeLog[i].s \in ActivationStatuses \ {"ACTIVE"}}

\* C27: when the fetched activation status is not ACTIVE runBot halts: the
\* only call that follows is the request of an activation code; no human is
\* fetched, no job created, no message sent and no wait started
C27_NotActiveHalts ==
    \A i \in NotActiveIdx :
        /\ lifePc = "done"
        /\ lifeError = "none"
        /\ Len(lifeLog) = i + 1
        /\ lifeLog[i + 1].op = "requestActivationCode"
        /\ \A j \in 1..Len(lifeLog) :
               lifeLog[j].op \notin {"getHuman", "createJob", "sendMessage", "getJob", "getMessages"}
        /\ remoteMsgs = <<>>
        /\ jobStatus = "none"

C27_Witness ==
    /\ variant = "errand"
    /\ lifePc = "done"
    /\ NotActiveIdx # {}
    /\ lifeLog[Len(lifeLog)] = E("requestActivationCode", 0, "throws")

(***************************************************************************)
(* The known messages on resume                                            *)
(***************************************************************************)
\* resumeBot calls runJobLifecycle and a phase starts
IsResumeStep == lifePc = "resume" /\ lifePc' \notin {"resume", "failed", "done"}

\* C28: when the phases of a resumed job start, the id of every message of
\* the job's history is in the known set
C28_HistoryKnownOnResume ==
    [][IsResumeStep => \A i \in 1..Len(remoteMsgs) : remoteMsgs[i].id \in knownIds']_vars

(***************************************************************************)
(* The webhook secret                                                      *)
(***************************************************************************)
\* C29: when the bot has started with a webhook URL set, the secret has
\* between 16 and 256 characters
C29_SecretLengthWhenPush ==
    (startup = "started" /\ webhookUrl) => webhookSecret \in MinSecretLen..MaxSecretLen

(***************************************************************************)
(* One waiter per key                                                      *)
(***************************************************************************)
\* the calls of waitForEvent on key k whose promise is not settled
ActiveWaiters(k) == {c \in 1..Len(calls) : KeyOfCall(c) = k /\ calls[c].state = "pending"}

Undelivered(k) ==
    {p \in 1..Len(published) :
        /\ KeyOfPayload(p) = k
        /\ \A c \in 1..Len(calls) : ~(calls[c].state = "resolved" /\ calls[c].payload = p)}

\* C31: the buffer's entry for a key is the most recently published of the
\* events for the key that no waiter received; the earlier ones are gone
C31_BufferKeepsLatest ==
    \A k \in Keys :
        bufferedEvents[k] # 0 =>
            /\ bufferedEvents[k] \in Undelivered(k)
            /\ \A p \in Undelivered(k) : p <= bufferedEvents[k]

C31_Witness ==
    \E k \in Keys :
        /\ Cardinality(Undelivered(k)) >= 2
        /\ bufferedEvents[k] # 0
        /\ \E p \in Undelivered(k) : p < bufferedEvents[k]

\* C35: no key has a resolver stored and an event buffered at the same time
C35_WaiterOrBuffer ==
    \A k \in Keys : ~(pendingResolvers[k] # 0 /\ bufferedEvents[k] # 0)

C35_Witness ==
    \E k \in Keys :
        /\ pendingResolvers[k] # 0
        /\ \E p \in 1..Len(published) : KeyOfPayload(p) = k
        /\ \E c \in 1..Len(calls) : KeyOfCall(c) = k /\ calls[c].error = "timeout"

(***************************************************************************)
(* Order inside a pass of the polling wait                                 *)
(***************************************************************************)
\* the status fetch of the pass entry i belongs to
PassStart(i) == CHOOSE g \in FetchIdx : g <= i /\ \A h \in FetchIdx : h <= i => h <= g

\* C32: in a pass the status is fetched and compared before the messages are
\* fetched; the pass that fetches the target status returns the event with
\* no message fetch and no callback
C32_StatusBeforeMessages ==
    /\ \A i \in LifeIdx : lifeLog[i].op = "getMessages" =>
          /\ i - 1 \in FetchIdx
          /\ lifeLog[i - 1].s # EVENT_TO_STATUS(WaitKind)
    /\ \A i \in CallbackIdx :
          /\ \E g \in FetchIdx : g < i
          /\ lifeLog[PassStart(i) + 1].op = "getMessages"
    /\ \A i \in FetchIdx : lifeLog[i].s = EVENT_TO_STATUS(WaitKind) =>
          /\ Len(lifeLog) = i + 1
          /\ lifeLog[i + 1].op = "return"

\* the target status is fetched while a message of the human is unread: the
\* wait returns and the message stays unread
C32_Witness ==
    /\ lifeLog # <<>>
    /\ lifeLog[Len(lifeLog)].op = "return"
    /\ \E k \in 1..Len(remoteMsgs) :
          remoteMsgs[k].senderType = "human" /\ remoteMsgs[k].id \notin knownIds
    /\ CallbackIdx = {}

(***************************************************************************)
(* The message callbacks of a pass                                         *)
(***************************************************************************)
\* the place of message id in the list getMessages returns
MsgPos(id) == CHOOSE k \in 1..Len(remoteMsgs) : remoteMsgs[k].id = id

ReplyIdx == {i \in LifeIdx : lifeLog[i].op = "sendMessage" /\ lifeLog[i].s = "reply"}

\* C33: the callbacks of a pass run in list order, each finished, its reply
\* sent, before the next one is entered; the next status fetch comes after
\* the last callback of the pass and its reply, so the replies are sent in
\* the order of the messages they answer
C33_CallbacksInOrder ==
    /\ \A i \in CallbackIdx : lifeLog[i].s = "replied" => i + 1 \in ReplyIdx
    /\ \A i \in ReplyIdx : i - 1 \in CallbackIdx /\ lifeLog[i - 1].s = "replied"
    /\ \A i, j \in CallbackIdx :
          (i < j /\ PassStart(i) = PassStart(j)) =>
              MsgPos(lifeLog[i].n) < MsgPos(lifeLog[j].n)
    /\ \A i \in CallbackIdx : \A g \in FetchIdx :
          i < g => /\ \E k \in LifeIdx : i < k /\ k < g /\ lifeLog[k].op = "sleep"
                   /\ lifeLog[i].s = "replied" => i + 1 < g
    /\ \A i, j \in ReplyIdx :
          i < j => MsgPos(lifeLog[i - 1].n) < MsgPos(lifeLog[j - 1].n)
             \/ PassStart(i) < PassStart(j)

\* two messages were answered in one pass, and a pass followed
C33_Witness ==
    \E i, j \in ReplyIdx :
        /\ i < j
        /\ PassStart(i) = PassStart(j)
        /\ \E g \in FetchIdx : j < g

\* the callbacks that threw
ThrewIdx == {i \in CallbackIdx : lifeLog[i].s = "threw"}

\* the messages of the human no callback was entered for
Unhandled == {k \in 1..Len(remoteMsgs) :
                 /\ remoteMsgs[k].senderType = "human"
                 /\ \A i \in CallbackIdx : lifeLog[i].n # remoteMsgs[k].id}

\* the passes that went through the whole message list: the messages were
\* fetched and no callback threw before the sleep
FullPassIdx ==
    {i \in LifeIdx : /\ lifeLog[i] = E("getMessages", 0, "ok")
                     /\ \E k \in LifeIdx : k > i /\ lifeLog[k].op = "sleep" /\ PassStart(k) = PassStart(i)
                     /\ \A k \in ThrewIdx : PassStart(k) # PassStart(i)}

\* C38: a callback that throws ends the message handling of its pass: the
\* sleep follows and the wait goes on; the messages after it keep waiting,
\* unknown, for a later pass, which hands them to the callback; the message
\* whose callback threw is known and is not handed over again
C38_CallbackThrowSwallowed ==
    /\ \A i \in ThrewIdx :
          /\ i < Len(lifeLog) /\ lifeLog[i + 1].op = "sleep"
          /\ i + 1 = Len(lifeLog) => (InWait /\ lifeError = "none")
          /\ i + 2 <= Len(lifeLog) => lifeLog[i + 2].op \in {"getJob", "timeout"}
          /\ lifeLog[i].n \in knownIds
          /\ \A j \in CallbackIdx : lifeLog[j].n = lifeLog[i].n => j = i
    /\ \A k \in Unhandled : remoteMsgs[k].id \notin knownIds
    /\ FullPassIdx # {} => Unhandled = {}
    /\ lifePc = "failed" => lifeLog[Len(lifeLog)].op \in {"timeout", "getJob"}

\* the callback threw for the first message; the second one was answered in
\* a later pass
C38_Witness ==
    \E i \in ThrewIdx : \E j \in ReplyIdx :
        /\ i < j
        /\ PassStart(i) < PassStart(j)
        /\ MsgPos(lifeLog[i].n) < MsgPos(lifeLog[j - 1].n)
        /\ Unhandled = {}

(***************************************************************************)
(* request(): the 403 responses                                            *)
(***************************************************************************)
\* the responses with status 403 a finished call of marketing-bot's
\* request() has received
ForbiddenIdx ==
    {i \in 1..Len(log) : log[i].op = "response" /\ log[i].n = 403}

\* C34: a call of marketing-bot's request() that receives a 403 fails: with
\* the error 'Agent is not yet activated' when the body carries the code
\* AGENT_PENDING, with `API 403: <message>` for any other body
C34_ForbiddenErrors ==
    (variant # "errand" /\ reqPc \in {"done", "failed"}) =>
        \A i \in ForbiddenIdx :
            /\ reqPc = "failed"
            /\ lastError = IF log[i].s = "pending"
                           THEN OtherError("Agent is not yet activated")
                           ELSE ApiError(403, log[i].s)

(***************************************************************************)
(* request(): after a 2xx response                                         *)
(***************************************************************************)
\* the 2xx responses a call of request() has received
OkResponseIdx ==
    {i \in LogIdx : log[i].op = "response" /\ log[i].n \in 200..299}

\* C36: once a call of request() has received a 2xx response it sends no
\* further HTTP request
C36_NoRequestAfterOk ==
    \A i \in OkResponseIdx : \A j \in RequestIdx : j < i

(***************************************************************************)
(* marketing-bot: the transfer and its record                              *)
(***************************************************************************)
\* the transfers that were confirmed on chain
TransferredIdx == {i \in OpIdx("sendUsdc") : lifeLog[i].n = 1 /\ lifeLog[i].s = "txHash"}

\* C37: one run of marketing-bot's lifecycle makes at most one transfer;
\* markJobPaid is called only right after a transfer of that run succeeded,
\* with that transfer's hash; no transfer follows a call of markJobPaid,
\* failed or not
C37_OneTransferThenRecord ==
    (BotEntered /\ variant # "errand") =>
        /\ Cardinality(OpIdx("sendUsdc")) <= 1
        /\ \A i \in OpIdx("markJobPaid") :
               /\ i - 1 \in TransferredIdx
               /\ lifeLog[i].n = 1
               /\ \A j \in OpIdx("sendUsdc") : j < i

C37_Witness ==
    /\ BotEntered
    /\ variant # "errand"
    /\ \E i \in OpIdx("markJobPaid") : lifeLog[i].s = "throws"
    /\ lifePc = "done"

(***************************************************************************)
(* The wait for 'job.completed'                                            *)
(***************************************************************************)
\* the entries of the log that end a wait
WaitEnders ==
    {i \in LifeIdx : \/ lifeLog[i].op \in {"return", "timeout"}
                     \/ lifeLog[i].op = "getJob" /\ lifeLog[i].s = "error"}

\* C39: in a wait for 'job.completed' a fetched status other than COMPLETED,
\* REJECTED included, is followed by the message fetch and the sleep of its
\* pass and the wait goes on; the wait ends only with the return on
\* COMPLETED, with a failed status fetch or with the timeout, and never with
\* the rejection error
C39_CompletionWaitIgnoresRejection ==
    WaitKind = "job.completed" =>
        /\ \A i \in FetchIdx : lifeLog[i].s \notin {"COMPLETED", "error"} =>
              /\ i + 1 \in LifeIdx /\ lifeLog[i + 1].op = "getMessages"
              /\ \E j \in LifeIdx : j > i /\ lifeLog[j].op = "sleep"
                                    /\ \A k \in (i + 1)..j : k \notin WaitEnders
        /\ lifeError # "rejected"
        /\ InWait <=> WaitEnders = {}
        /\ \A i \in WaitEnders :
              /\ i = Len(lifeLog)
              /\ lifeLog[i].op = "return" => lifeLog[i - 1].s = "COMPLETED"

\* REJECTED was fetched in a wait for the completion, and COMPLETED in the
\* next pass
C39_Witness ==
    /\ WaitKind = "job.completed"
    /\ \E i, j \in FetchIdx : i < j /\ lifeLog[i].s = "REJECTED" /\ lifeLog[j].s = "COMPLETED"
    /\ ~InWait

(***************************************************************************)
(* resumeBot: a status no phase is written for                             *)
(***************************************************************************)
\* the statuses resumeBot or a phase of runJobLifecycle tests for
NamedStatuses ==
    {"PENDING", "OFFERED", "ACCEPTED", "PAID", "COMPLETED", "REJECTED", "REVIEWED"}

\* C40: resumeBot on a job whose fetched status is none of the named ones
\* fetches the job and its messages, makes no call of any phase (no wait, no
\* payment, no message, no review) and returns normally
C40_UnknownStatusNoPhase ==
    (LifeIdx # {} /\ lifeLog[1].op = "getJob"
        /\ lifeLog[1].s \notin NamedStatuses \cup {"error"}) =>
        /\ ResumeEntered
        /\ Len(lifeLog) = 2
        /\ lifePc = "done"
        /\ lifeError = "none"
        /\ remoteMsgs \in Histories

C40_Witness ==
    /\ ResumeEntered
    /\ lifeLog[1].s = "CANCELLED"
    /\ lifePc = "done"
    /\ remoteMsgs = <<[id |-> 1, senderType |-> "human"]>>

====
